---- MODULE Spec2Model ----
(***************************************************************************)
(* Model of the command-list pipeline of the voxels crate                  *)
(* (src/src/bevy_voxel.rs, src/src/command.rs).                            *)
(*                                                                         *)
(* One CommandList (the shared CommandListData behind every handle clone)  *)
(* is driven by three kinds of threads:                                    *)
(*   - the render thread, which runs the scheduler phases of one frame in  *)
(*     order: prepare_command_list, VoxelCommandListsNode::run,            *)
(*     map_commands;                                                       *)
(*   - caller threads, each owning a clone of the handle and calling       *)
(*     commands_mut / state / run_again;                                   *)
(*   - device threads, on which buffer-map completions fire.               *)
(* The two parking_lot mutexes of CommandListData are modelled by their    *)
(* owner; CommandListData::lock takes them in two steps.  A panic unwinds  *)
(* (the guards are dropped) and stops the program.                         *)
(***************************************************************************)
EXTENDS Integers, Sequences, FiniteSets, TLC

\* ---------------------------------------------------------------- bounds

\* Longest command sequence a caller builds.
MaxCmds == 2

\* Number of caller threads, each holding its own clone of the handle.
NumCallers == 2

\* ------------------------------------------------------------- constants

CommandListState == {"Init", "Busy", "Mapping", "Done"}

\* The concrete commands; GeometryCommand is split by its GeometryOp.
CmdKinds == {"CreateGrid", "PasteCube", "PasteSphere", "GetVoxels", "GenerateMesh"}

GENERATE_MESH_ENTRY_POINT == "generate_mesh"
PASTE_CUBE_ENTRY_POINT == "paste_cube"
PASTE_SPHERE_ENTRY_POINT == "paste_sphere"

\* Keys of CommandPipeline.map after from_world.
PipelineMap == {GENERATE_MESH_ENTRY_POINT, PASTE_SPHERE_ENTRY_POINT}

\* Entry point a command looks up in prepare and add_pass ("" : none).
EntryPoint(kind) ==
    CASE kind = "GenerateMesh" -> GENERATE_MESH_ENTRY_POINT
      [] kind = "PasteCube"    -> PASTE_CUBE_ENTRY_POINT
      [] kind = "PasteSphere"  -> PASTE_SPHERE_ENTRY_POINT
      [] OTHER                 -> ""

\* i32::MAX, the limit check_grid_size compares with.
I32Max == 2147483647

\* UVec3::ZERO, the size of a command that was given none.
ZeroSize == <<0, 0, 0>>

\* The grid sizes (UVec3, padding excluded) a caller asks CreateGridCommand
\* for: two that check_grid_size accepts and one it rejects.
GridSizes == {<<1, 1, 1>>, <<2, 1, 1>>, <<I32Max - 2, 0, 0>>}

\* check_grid_size panics ("Voxel grid size is too large").  The sizes used
\* here keep the product far below the width of usize.
GridTooLarge(size) ==
    \/ size[1] >= I32Max - 2
    \/ size[2] >= I32Max - 2
    \/ size[3] >= I32Max - 2
    \/ (size[1] + 2) * (size[2] + 2) * (size[3] + 2) * 4 >= I32Max

\* SharedVoxelGrid holding None, and holding Some(VoxelGrid { size, buffer });
\* buf tells the buffers created for this shared grid apart (the n-th one).
NoGrid == [some |-> FALSE, size |-> ZeroSize, buf |-> 0]
SomeGrid(size, buf) == [some |-> TRUE, size |-> size, buf |-> buf]

\* A freshly constructed command: parameters only, no scratch state
\* (cmd_impl = None, copy_buffer = None).  size is the size parameter of
\* CreateGridCommand; ops is the history of the VoxelCommand operations
\* that returned for this command in the current run.
NewCommand(kind, size) == [kind |-> kind, scratch |-> FALSE, size |-> size, ops |-> <<>>]

\* The commands a caller can construct.
FreshCommands ==
    {NewCommand("CreateGrid", sz) : sz \in GridSizes}
        \cup {NewCommand(kd, ZeroSize) : kd \in CmdKinds \ {"CreateGrid"}}

\* The operation op returned for cmd.
Called(cmd, op) == [cmd EXCEPT !.ops = Append(@, op)]

Callers == 1..NumCallers

Free == [kind |-> "free", id |-> 0]
RenderThread == [kind |-> "render", id |-> 0]
CallerThread(c) == [kind |-> "caller", id |-> c]

VARIABLES
    state,          \* CommandListData.state
    commands,       \* CommandListData.commands
    stateLock,      \* owner of the state mutex
    commandsLock,   \* owner of the commands mutex
    grid,           \* the SharedVoxelGrid of the commands: NoGrid or SomeGrid
    pending,        \* number of entries of this list in CommandPipeline.command_lists
    rpc,            \* position of the render thread in the frame
    panicWhy,       \* the panic that stopped the program ("" : none)
    k,              \* map_commands: index of the next command to async_finish
    count,          \* map_commands: the AtomicUsize shared by the callbacks
    inflight,       \* map requests issued whose completion has not fired
    cpc,            \* position of every caller thread
    lastCall,       \* the most recent call of the handle API and its outcome
    mapped,         \* history: map_commands moved the current run to Mapping
    runN,           \* history: number of commands of the run at that moment
    fired,          \* history: completion callbacks of the run that fired
    failed,         \* history: completion callbacks of the run that got Err
    hits,           \* history: callbacks of the run whose counter test passed
    cbSeen,         \* history: list states in which a callback of the run fired
    closure,        \* history: the latest map completion and the calls its closure made
    calc,           \* a call of one of the functions of voxel.rs: arguments and result
    vgrid,          \* an entity with VoxelGridData and VoxelGrid, and the two systems on it
    genMesh,        \* a standalone GenerateMesh component and its systems
    getVoxels       \* a GetVoxelsCommand in async_finish: its copy_buffer mutex

vars == <<state, commands, stateLock, commandsLock, grid, pending, rpc, panicWhy, k, count,
          inflight, cpc, lastCall, mapped, runN, fired, failed, hits, cbSeen, closure, calc,
          vgrid, genMesh, getVoxels>>

\* The variables of the components outside the command list.
compVars == <<vgrid, genMesh, getVoxels>>

\* The variables of the command list and its scheduler.
listVars == <<state, commands, stateLock, commandsLock, grid, pending, rpc, panicWhy, k,
              count, inflight, cpc, lastCall, mapped, runN, fired, failed, hits, cbSeen,
              closure>>

lockVars == <<stateLock, commandsLock>>
renderVars == <<pending, rpc, panicWhy, k>>
runVars == <<count, inflight, mapped, runN, fired, failed, hits, cbSeen, closure>>

RECURSIVE SeqsUpTo(_, _)
SeqsUpTo(S, n) ==
    IF n = 0 THEN {<<>>}
    ELSE LET shorter == SeqsUpTo(S, n - 1)
         IN shorter \cup {Append(s, x) : s \in {t \in shorter : Len(t) = n - 1}, x \in S}

\* No function of voxel.rs is being called.
NoCalc == [fn |-> "none"]

\* No entity with a voxel grid, no GenerateMesh component, no GetVoxelsCommand
\* in async_finish.
NoEntity == [pc |-> "none"]

NoGenMesh == [pc |-> "none"]

NoGetVoxels == [pc |-> "none"]

CompIdle == vgrid = NoEntity /\ genMesh = NoGenMesh /\ getVoxels = NoGetVoxels

NoClosure == [res |-> "none", calls |-> <<>>]

NoCall == [op |-> "none", pre |-> "Init", ret |-> "none", post |-> "Init"]

\* CommandList::new: state Init, the commands as given, nothing locked.
Init ==
    /\ state = "Init"
    /\ commands \in SeqsUpTo(FreshCommands, MaxCmds)
    /\ stateLock = Free
    /\ commandsLock = Free
    /\ grid = NoGrid
    /\ pending = 0
    /\ rpc = "idle"
    /\ panicWhy = ""
    /\ k = 0
    /\ count = 0
    /\ inflight = 0
    /\ cpc = [c \in Callers |-> "idle"]
    /\ lastCall = NoCall
    /\ mapped = FALSE
    /\ runN = 0
    /\ fired = 0
    /\ failed = 0
    /\ hits = 0
    /\ cbSeen = {}
    /\ closure = NoClosure
    /\ calc = NoCalc
    /\ CompIdle

Running == rpc # "panicked"

\* ------------------------------------------------- the commands (command.rs)

\* Faulty variant of CreateGridCommand::prepare: a new grid every time.
CreateGridPrepare_AlwaysNew(g, size) == SomeGrid(size, g.buf + 1)

\* CreateGridCommand::prepare on the shared grid g for a size that
\* VoxelGrid::new accepts: a grid of that size is kept as it is, anything else
\* is replaced by a new grid with a new buffer.
CreateGridPrepare(g, size) ==
    IF g.some /\ g.size = size THEN g ELSE SomeGrid(size, g.buf + 1)

\* The panic of VoxelCommand::prepare for cmd on the shared grid g ("" : it
\* returns).
\*   CreateGridCommand   : VoxelGrid::new panics for a size too large, unless
\*                         the grid is reused.
\*   GetVoxelsCommand    : never panics.
\*   GenerateMeshCommand : looks the layout up, then expects the grid.
\*   GeometryCommand     : expects the grid, then looks the layout up.
PreparePanic(cmd, g) ==
    CASE cmd.kind = "CreateGrid" ->
           IF ~(g.some /\ g.size = cmd.size) /\ GridTooLarge(cmd.size)
           THEN "grid_too_large" ELSE ""
      [] cmd.kind = "GetVoxels" -> ""
      [] cmd.kind = "GenerateMesh" ->
           IF EntryPoint(cmd.kind) \notin PipelineMap THEN "unknown_name"
           ELSE IF ~g.some THEN "missing_grid" ELSE ""
      [] OTHER ->
           IF ~g.some THEN "missing_grid"
           ELSE IF EntryPoint(cmd.kind) \notin PipelineMap THEN "unknown_name" ELSE ""

\* VoxelCommand::prepare of one command on the shared grid g.  Result: the
\* command afterwards, the grid afterwards, and whether (and why) it panicked.
\*   CreateGridCommand   : makes the grid Some (reused or replaced).
\*   GetVoxelsCommand    : returns early when the grid is None, else creates
\*                         copy_buffer.
\*   GenerateMeshCommand, GeometryCommand : create cmd_impl.
\* A command whose prepare returns starts its record of the run.
PrepareCommand(cmd, g) ==
    LET why == PreparePanic(cmd, g)
        started == [cmd EXCEPT !.ops = <<"prepare">>]
    IN IF why # ""
       THEN [cmd |-> cmd, grid |-> g, panic |-> TRUE, why |-> why]
       ELSE CASE cmd.kind = "CreateGrid" ->
                   [cmd |-> started, grid |-> CreateGridPrepare(g, cmd.size),
                    panic |-> FALSE, why |-> ""]
              [] cmd.kind = "GetVoxels" ->
                   [cmd |-> [started EXCEPT !.scratch = IF g.some THEN TRUE ELSE @],
                    grid |-> g, panic |-> FALSE, why |-> ""]
              [] OTHER ->
                   [cmd |-> [started EXCEPT !.scratch = TRUE], grid |-> g,
                    panic |-> FALSE, why |-> ""]

\* Faulty variant of the loop of prepare_command_list: add_pass and add_copy
\* are called on a command right after its prepare.
RECURSIVE PrepareFrom_ThenPasses(_, _, _)
PrepareFrom_ThenPasses(cmds, i, g) ==
    IF i > Len(cmds) THEN [cmds |-> cmds, grid |-> g, panic |-> FALSE, why |-> ""]
    ELSE LET r == PrepareCommand(cmds[i], g)
         IN IF r.panic THEN [cmds |-> cmds, grid |-> r.grid, panic |-> TRUE, why |-> r.why]
            ELSE PrepareFrom_ThenPasses(
                     [cmds EXCEPT ![i] = Called(Called(r.cmd, "add_pass"), "add_copy")],
                     i + 1, r.grid)

\* The loop of prepare_command_list over guard.commands, in list order; it
\* stops at the first command whose prepare panics.
RECURSIVE PrepareFrom(_, _, _)
PrepareFrom(cmds, i, g) ==
    IF i > Len(cmds) THEN [cmds |-> cmds, grid |-> g, panic |-> FALSE, why |-> ""]
    ELSE LET r == PrepareCommand(cmds[i], g)
         IN IF r.panic THEN [cmds |-> cmds, grid |-> r.grid, panic |-> TRUE, why |-> r.why]
            ELSE PrepareFrom([cmds EXCEPT ![i] = r.cmd], i + 1, r.grid)

\* The panic of VoxelCommand::add_pass ("" : it returns): cmd_impl is None,
\* the entry point is not in the pipeline map, or the cached pipeline is not
\* compiled yet (ready).
AddPassPanic(cmd, ready) ==
    IF cmd.kind \notin {"GenerateMesh", "PasteCube", "PasteSphere"} THEN ""
    ELSE IF ~cmd.scratch THEN "unwrap_none"
    ELSE IF EntryPoint(cmd.kind) \notin PipelineMap THEN "unknown_name"
    ELSE IF ~ready THEN "pipeline_not_ready"
    ELSE ""

AddPassPanics(cmd, ready) == AddPassPanic(cmd, ready) # ""

\* VoxelCommand::add_copy panics: GetVoxelsCommand unwraps the grid and its
\* copy_buffer, GenerateMeshCommand unwraps cmd_impl.
AddCopyPanics(cmd, g) ==
    \/ cmd.kind = "GetVoxels" /\ (~g.some \/ ~cmd.scratch)
    \/ cmd.kind = "GenerateMesh" /\ ~cmd.scratch

\* The loop of VoxelCommandListsNode::run over guard.commands: add_pass, then
\* add_copy, for every command in list order; it stops at the first panic.
RECURSIVE AddPassesFrom(_, _, _, _)
AddPassesFrom(cmds, i, g, ready) ==
    IF i > Len(cmds) THEN [cmds |-> cmds, panic |-> FALSE, why |-> ""]
    ELSE IF AddPassPanics(cmds[i], ready)
    THEN [cmds |-> cmds, panic |-> TRUE, why |-> AddPassPanic(cmds[i], ready)]
    ELSE IF AddCopyPanics(cmds[i], g)
    THEN [cmds |-> [cmds EXCEPT ![i] = Called(@, "add_pass")],
          panic |-> TRUE, why |-> "unwrap_none"]
    ELSE AddPassesFrom([cmds EXCEPT ![i] = Called(Called(@, "add_pass"), "add_copy")],
                       i + 1, g, ready)

\* Faulty variant: every command defers its completion to a map request.
MapsBuffer_All(cmd) == TRUE

\* The commands whose async_finish maps a buffer; the others call done(Ok(()))
\* before they return.
MapsBuffer(cmd) == cmd.kind \in {"GetVoxels", "GenerateMesh"}

\* VoxelCommand::async_finish panics: the unwrap of copy_buffer / cmd_impl.
AsyncFinishPanics(cmd) == cmd.kind \in {"GetVoxels", "GenerateMesh"} /\ ~cmd.scratch

\* The command after async_finish: GenerateMeshCommand takes its cmd_impl,
\* GetVoxelsCommand and GeometryCommand keep theirs.
AsyncFinished(cmd) ==
    Called(IF cmd.kind = "GenerateMesh" THEN [cmd EXCEPT !.scratch = FALSE] ELSE cmd,
           "async_finish")

\* --------------------------------------------- the handle (bevy_voxel.rs)

\* CommandList::commands_mut: the test that decides Some(guard) / None.
CommandsMutGrants(s) == s # "Init" \/ s = "Done"

\* Faulty variants of run_again: one that never resets, one that resets a
\* list a run of which is in flight, one that reports success only after a
\* reset.
RunAgainState_NoReset(s) == s

RunAgainState_ResetsBusy(s) == IF s # "Init" THEN "Init" ELSE s

RunAgainReturn_OnlyAfterReset(s) == s = "Done"

\* Faulty variant of run_again: it reports success without looking at the
\* state.
RunAgainReturn_Unconditional(s) == TRUE

\* CommandList::run_again: the state it leaves behind ...
RunAgainState(s) == IF s = "Done" THEN "Init" ELSE s

\* ... and the value it returns (the state compared after the assignment).
RunAgainReturn(s) == RunAgainState(s) = "Init"

BoolStr(b) == IF b THEN "true" ELSE "false"

\* Faulty variant of CommandListData::lock: the state mutex is locked first.
LockOrder_Reversed == <<"state", "commands">>

\* CommandListData::lock: the order in which it locks the two mutexes.
LockOrder == <<"commands", "state">>

\* The mutex named l is not held.
LockFree(l) == IF l = "commands" THEN commandsLock = Free ELSE stateLock = Free

\* CommandListData::lock, first half: thread t locks the first mutex of the
\* order (it blocks while another thread holds it).
LockFirst(t) ==
    /\ LockFree(LockOrder[1])
    /\ commandsLock' = IF LockOrder[1] = "commands" THEN t ELSE commandsLock
    /\ stateLock' = IF LockOrder[1] = "state" THEN t ELSE stateLock

\* CommandListData::lock, second half: the second mutex of the order can be
\* locked.
LockSecond == LockFree(LockOrder[2])

\* CommandListData::lock, first half, called by commands_mut.
CommandsMutLockCommands(c) ==
    /\ Running
    /\ cpc[c] = "idle"
    /\ LockFirst(CallerThread(c))
    /\ cpc' = [cpc EXCEPT ![c] = "lock_state"]
    /\ UNCHANGED <<state, commands, grid, renderVars, runVars, lastCall>>

\* Second half, then the test of commands_mut.  With None the guard is dropped
\* at once; with Some the caller keeps both locks.
CommandsMut(c) ==
    /\ Running
    /\ cpc[c] = "lock_state"
    /\ LockSecond
    /\ lastCall' = [op |-> "commands_mut", pre |-> state,
                    ret |-> IF CommandsMutGrants(state) THEN "Some" ELSE "None",
                    post |-> state]
    /\ IF CommandsMutGrants(state)
       THEN /\ stateLock' = CallerThread(c)
            /\ commandsLock' = CallerThread(c)
            /\ cpc' = [cpc EXCEPT ![c] = "guard"]
       ELSE /\ stateLock' = Free
            /\ commandsLock' = Free
            /\ cpc' = [cpc EXCEPT ![c] = "idle"]
    /\ UNCHANGED <<state, commands, grid, renderVars, runVars>>

\* DerefMut of the CommandGuard: the caller pushes a new command ...
GuardPush(c) ==
    /\ Running
    /\ cpc[c] = "guard"
    /\ Len(commands) < MaxCmds
    /\ \E cmd \in FreshCommands : commands' = Append(commands, cmd)
    /\ UNCHANGED <<state, lockVars, grid, renderVars, runVars, cpc, lastCall>>

\* ... or removes the last one.
GuardPop(c) ==
    /\ Running
    /\ cpc[c] = "guard"
    /\ Len(commands) > 0
    /\ commands' = SubSeq(commands, 1, Len(commands) - 1)
    /\ UNCHANGED <<state, lockVars, grid, renderVars, runVars, cpc, lastCall>>

\* Drop of the CommandGuard: state lock first, then commands lock.
GuardDrop(c) ==
    /\ Running
    /\ cpc[c] = "guard"
    /\ stateLock' = Free
    /\ commandsLock' = Free
    /\ cpc' = [cpc EXCEPT ![c] = "idle"]
    /\ UNCHANGED <<state, commands, grid, renderVars, runVars, lastCall>>

\* CommandList::state: locks the state mutex, copies the state, unlocks.
State(c) ==
    /\ Running
    /\ cpc[c] = "idle"
    /\ stateLock = Free
    /\ lastCall' = [op |-> "state", pre |-> state, ret |-> state,
                    post |-> state]
    /\ UNCHANGED <<state, commands, lockVars, grid, renderVars, runVars, cpc>>

\* CommandList::run_again: locks the state mutex only.
RunAgain(c) ==
    /\ Running
    /\ cpc[c] = "idle"
    /\ stateLock = Free
    /\ state' = RunAgainState(state)
    /\ lastCall' = [op |-> "run_again", pre |-> state,
                    ret |-> BoolStr(RunAgainReturn(state)),
                    post |-> RunAgainState(state)]
    /\ UNCHANGED <<commands, lockVars, grid, renderVars, runVars, cpc>>

\* ------------------------------------- the scheduler phases (bevy_voxel.rs)

\* A panic on the render thread: the guards it holds are dropped while it
\* unwinds, and the program stops.
RenderPanics(why) ==
    /\ rpc' = "panicked"
    /\ panicWhy' = why
    /\ stateLock' = Free
    /\ commandsLock' = Free

\* The guard of a scheduler phase is dropped at the end of its loop body.
RenderUnlocks ==
    /\ stateLock' = Free
    /\ commandsLock' = Free

\* prepare_command_list, command_list.0.lock(), first half.
PrepareLockCommands ==
    /\ rpc = "idle"
    /\ LockFirst(RenderThread)
    /\ rpc' = "prepare"
    /\ UNCHANGED <<state, commands, grid, pending, panicWhy, k, runVars, cpc, lastCall>>

\* Faulty variant of prepare_command_list: no list is skipped.
PrepareSkips_Never(s) == FALSE

\* prepare_command_list: the test that skips a list.
PrepareSkips(s) == s # "Init"

\* Faulty variant of prepare_command_list: Busy is written before the commands
\* are prepared.
PrepareAbortState_BusyFirst(s) == "Busy"

\* prepare_command_list, the state a panic inside the loop over the commands
\* leaves: the write of Busy comes after the loop.
PrepareAbortState(s) == s

\* prepare_command_list, from state.lock() to the drop of the guard at the end
\* of the loop body: a list that is not Init is skipped; otherwise every
\* command is prepared in list order, the state becomes Busy and the list is
\* pushed on CommandPipeline.command_lists.
PrepareCommandList ==
    /\ rpc = "prepare"
    /\ LockSecond
    /\ IF PrepareSkips(state)
       THEN /\ rpc' = "node"
            /\ RenderUnlocks
            /\ UNCHANGED <<state, commands, grid, pending, panicWhy>>
       ELSE LET r == PrepareFrom(commands, 1, grid)
            IN /\ commands' = r.cmds
               /\ grid' = r.grid
               /\ IF r.panic
                  THEN /\ RenderPanics(r.why)
                       /\ state' = PrepareAbortState(state)
                       /\ UNCHANGED pending
                  ELSE /\ state' = "Busy"
                       /\ pending' = pending + 1
                       /\ rpc' = "node"
                       /\ RenderUnlocks
                       /\ UNCHANGED panicWhy
    /\ UNCHANGED <<k, runVars, cpc, lastCall>>

\* VoxelCommandListsNode::run, command_list.lock(), first half; with an empty
\* command_lists the node has nothing to do.
NodeLockCommands ==
    /\ rpc = "node"
    /\ IF pending = 0
       THEN /\ rpc' = "map"
            /\ UNCHANGED lockVars
       ELSE /\ LockFirst(RenderThread)
            /\ rpc' = "node_run"
    /\ UNCHANGED <<state, commands, grid, pending, panicWhy, k, runVars, cpc, lastCall>>

\* VoxelCommandListsNode::run, from state.lock() to the drop of the guard:
\* for a Busy list add_pass and add_copy are called on every command; a list
\* in another state is skipped.
NodeRun ==
    /\ rpc = "node_run"
    /\ LockSecond
    /\ IF state # "Busy"
       THEN /\ rpc' = "map"
            /\ RenderUnlocks
            /\ UNCHANGED <<commands, panicWhy>>
       ELSE \E ready \in BOOLEAN :
              LET r == AddPassesFrom(commands, 1, grid, ready)
              IN /\ commands' = r.cmds
                 /\ IF r.panic
                    THEN RenderPanics(r.why)
                    ELSE /\ rpc' = "map"
                         /\ RenderUnlocks
                         /\ UNCHANGED panicWhy
    /\ UNCHANGED <<state, grid, pending, k, runVars, cpc, lastCall>>

\* map_commands: take(&mut pipeline.command_lists), then command_list.lock(),
\* first half.
MapLockCommands ==
    /\ rpc = "map"
    /\ IF pending = 0
       THEN /\ rpc' = "idle"
            /\ UNCHANGED <<lockVars, pending>>
       ELSE /\ LockFirst(RenderThread)
            /\ pending' = 0
            /\ rpc' = "map_begin"
    /\ UNCHANGED <<state, commands, grid, panicWhy, k, runVars, cpc, lastCall>>

\* Faulty variant of map_commands: the state is not flipped before the
\* async_finish calls.
MapState_Stale(s) == s

\* map_commands, the state written for a Busy list before any async_finish.
MapState(s) == "Mapping"

\* Faulty variants of map_commands: the state guard is kept for the loop; both
\* guards are dropped before the loop.
MapHeldLocks_KeepsState == [commands |-> RenderThread, state |-> RenderThread]

MapHeldLocks_DropsBoth == [commands |-> Free, state |-> Free]

\* map_commands, the owners of the two mutexes while the loop calls
\* async_finish: drop(state) comes before the loop, the commands guard is
\* what the loop iterates over.
MapHeldLocks == [commands |-> RenderThread, state |-> Free]

\* map_commands, from state.lock() to the creation of the counter: a list
\* that is not Busy is skipped; otherwise the state is set, the state guard
\* is dropped and the counter starts at commands.len().  The commands guard
\* stays held for the loop that follows.
MapCommands ==
    /\ rpc = "map_begin"
    /\ LockSecond
    /\ IF state # "Busy"
       THEN /\ rpc' = "idle"
            /\ RenderUnlocks
            /\ UNCHANGED <<state, k, runVars>>
       ELSE /\ state' = MapState(state)
            /\ commandsLock' = MapHeldLocks.commands
            /\ stateLock' = MapHeldLocks.state
            /\ count' = Len(commands)
            /\ k' = 1
            /\ rpc' = "map_finish"
            /\ mapped' = TRUE
            /\ runN' = Len(commands)
            /\ fired' = 0
            /\ failed' = 0
            /\ hits' = 0
            /\ cbSeen' = {}
            /\ UNCHANGED <<inflight, closure>>
    /\ UNCHANGED <<commands, grid, pending, panicWhy, cpc, lastCall>>

\* Faulty variant of the completion callback: the test passes for every
\* callback.
CounterHit_Always(prev) == prev >= 0

\* The test of the completion callback on the value fetch_sub returned (the
\* counter before the decrement).
CounterHit(prev) == prev = 0

\* The completion callback of map_commands, called with res: it decrements
\* the counter and, when its test passes, locks the state and writes Done.
\* The counter never wraps: it starts at the number of async_finish calls and
\* every one of them completes at most once.
Callback(res) ==
    /\ CounterHit(count) => stateLock = Free
    /\ count' = count - 1
    /\ state' = IF CounterHit(count) THEN "Done" ELSE state
    /\ fired' = fired + 1
    /\ failed' = failed + (IF res = "Err" THEN 1 ELSE 0)
    /\ hits' = hits + (IF CounterHit(count) THEN 1 ELSE 0)
    /\ cbSeen' = cbSeen \cup {state}
    /\ UNCHANGED <<mapped, runN>>

\* Faulty variant of map_commands: the loop is left only when every map
\* request has completed.
MapLoopDone_WaitsForMaps(next, n, maps) == next > n /\ maps = 0

\* map_commands, the end of the loop over the commands: async_finish has been
\* called on each of the n commands; the map requests in flight play no part.
MapLoopDone(next, n, maps) == next > n

\* map_commands, one turn of the loop: async_finish of command k.  A command
\* with nothing to map runs the callback before it returns; the others issue
\* a map request whose completion fires later.
MapAsyncFinish ==
    /\ rpc = "map_finish"
    /\ k <= Len(commands)
    /\ IF AsyncFinishPanics(commands[k])
       THEN /\ RenderPanics("unwrap_none")
            /\ UNCHANGED <<state, commands, k, runVars>>
       ELSE /\ commands' = [commands EXCEPT ![k] = AsyncFinished(@)]
            /\ k' = k + 1
            /\ IF MapsBuffer(commands[k])
               THEN /\ inflight' = inflight + 1
                    /\ UNCHANGED <<state, count, mapped, runN, fired, failed, hits, cbSeen>>
               ELSE /\ Callback("Ok")
                    /\ UNCHANGED inflight
            /\ UNCHANGED closure
            /\ UNCHANGED <<rpc, panicWhy, lockVars>>
    /\ UNCHANGED <<grid, pending, cpc, lastCall>>

\* map_commands, end of the loop body: the commands guard is dropped.
MapEnd ==
    /\ rpc = "map_finish"
    /\ MapLoopDone(k, Len(commands), inflight)
    /\ commandsLock' = Free
    /\ rpc' = "idle"
    /\ UNCHANGED <<state, commands, stateLock, grid, pending, panicWhy, k, runVars, cpc, lastCall>>

\* Faulty variants of the closure given to map_async: the completion is
\* signalled before the result is delivered; the result is delivered whatever
\* the outcome of the map.
ClosureCalls_DoneFirst(res) ==
    IF res = "Ok" THEN <<[call |-> "done", res |-> res], [call |-> "result", res |-> res]>>
    ELSE <<[call |-> "done", res |-> res]>>

ClosureCalls_AlwaysResult(res) ==
    <<[call |-> "result", res |-> res], [call |-> "done", res |-> res]>>

\* The closure GetVoxelsCommand and GenerateMeshCommand give to map_async, run
\* with the outcome res of the map: with Ok it reads the mapped buffer and
\* calls the result callback (callback / receive_result); then, whatever the
\* outcome, it calls done(res).
ClosureCalls(res) ==
    IF res = "Ok" THEN <<[call |-> "result", res |-> res], [call |-> "done", res |-> res]>>
    ELSE <<[call |-> "done", res |-> res]>>

\* A map request completes on a device thread, with success or failure, and
\* the closure given to map_async runs.
MapCompletes ==
    /\ Running
    /\ inflight > 0
    /\ inflight' = inflight - 1
    /\ \E res \in {"Ok", "Err"} :
          LET calls == ClosureCalls(res)
              dones == {i \in 1..Len(calls) : calls[i].call = "done"}
          IN /\ closure' = [res |-> res, calls |-> calls]
             /\ IF dones # {}
                THEN Callback(calls[CHOOSE i \in dones : TRUE].res)
                ELSE UNCHANGED <<state, count, mapped, runN, fired, failed, hits, cbSeen>>
    /\ UNCHANGED <<commands, lockVars, grid, renderVars, cpc, lastCall>>

Next ==
    \/ PrepareLockCommands /\ UNCHANGED <<calc, compVars>>
    \/ PrepareCommandList /\ UNCHANGED <<calc, compVars>>
    \/ NodeLockCommands /\ UNCHANGED <<calc, compVars>>
    \/ NodeRun /\ UNCHANGED <<calc, compVars>>
    \/ MapLockCommands /\ UNCHANGED <<calc, compVars>>
    \/ MapCommands /\ UNCHANGED <<calc, compVars>>
    \/ MapAsyncFinish /\ UNCHANGED <<calc, compVars>>
    \/ MapEnd /\ UNCHANGED <<calc, compVars>>
    \/ MapCompletes /\ UNCHANGED <<calc, compVars>>
    \/ \E c \in Callers : CommandsMutLockCommands(c) /\ UNCHANGED <<calc, compVars>>
    \/ \E c \in Callers : CommandsMut(c) /\ UNCHANGED <<calc, compVars>>
    \/ \E c \in Callers : GuardPush(c) /\ UNCHANGED <<calc, compVars>>
    \/ \E c \in Callers : GuardPop(c) /\ UNCHANGED <<calc, compVars>>
    \/ \E c \in Callers : GuardDrop(c) /\ UNCHANGED <<calc, compVars>>
    \/ \E c \in Callers : State(c) /\ UNCHANGED <<calc, compVars>>
    \/ \E c \in Callers : RunAgain(c) /\ UNCHANGED <<calc, compVars>>

Spec == Init /\ [][Next]_vars

TypeOK ==
    /\ state \in CommandListState
    /\ Len(commands) <= MaxCmds
    /\ count \in 0..MaxCmds
    /\ inflight \in 0..MaxCmds
    /\ pending \in 0..1
    /\ fired <= runN

\* The handle API on a list no run of which is in flight: a new list (Init) or
\* a list whose run has completed (Done).
InitHandle ==
    /\ state \in {"Init", "Done"}
    /\ commands \in SeqsUpTo(FreshCommands, MaxCmds)
    /\ stateLock = Free
    /\ commandsLock = Free
    /\ grid = NoGrid
    /\ pending = 0
    /\ rpc = "idle"
    /\ panicWhy = ""
    /\ k = 0
    /\ count = 0
    /\ inflight = 0
    /\ cpc = [c \in Callers |-> "idle"]
    /\ lastCall = NoCall
    /\ mapped = FALSE
    /\ runN = 0
    /\ fired = 0
    /\ failed = 0
    /\ hits = 0
    /\ cbSeen = {}
    /\ closure = NoClosure
    /\ calc = NoCalc
    /\ CompIdle

HandleSpec == InitHandle /\ [][Next]_vars

\* ------------------------------------------------------------ the claims

RECURSIVE Kinds(_)
Kinds(cmds) == IF cmds = <<>> THEN <<>> ELSE <<Head(cmds).kind>> \o Kinds(Tail(cmds))

\* C1: commands_mut returns Some exactly when the state it finds is Init or
\* Done, and None when it is Busy or Mapping, for every handle clone.
C1_CommandsMutIffInitOrDone ==
    lastCall.op = "commands_mut" =>
        (lastCall.ret = "Some" <=> lastCall.pre \in {"Init", "Done"})

\* C2: while the list is Busy or Mapping no step changes the command
\* sequence (the commands and their order).
C2_SequenceFrozenWhileBusy ==
    [][(state \in {"Busy", "Mapping"}) => Kinds(commands') = Kinds(commands)]_vars

\* C3: once all N >= 1 completion callbacks of a run have fired, with success
\* or failure, the list is Done.
C3_AllFiredThenDone ==
    (mapped /\ runN >= 1 /\ fired = runN) => state = "Done"

\* C4: during a run of N commands, as long as fewer than N completion
\* callbacks of the run have fired, the list is not Done (and never more than
\* N fire), whatever the order of the callbacks.
C4_DoneOnlyAfterAllFired ==
    mapped => (fired <= runN /\ (fired < runN => state # "Done"))

\* A run in which some, but not all, completion callbacks have fired.
C4_Witness ==
    mapped /\ state = "Mapping" /\ 0 < fired /\ fired < runN

\* C5: when all N >= 1 callbacks of a run have fired, exactly one of them saw
\* the counter reach zero and wrote Done.
C5_ExactlyOneObservesZero ==
    (mapped /\ runN >= 1 /\ fired = runN) => hits = 1

\* C6: run_again called when the state is Done returns true and sets the
\* state to Init.
C6_RunAgainFromDone ==
    [][\A c \in Callers :
         (RunAgain(c) /\ state = "Done") =>
             (lastCall'.ret = "true" /\ state' = "Init")]_vars

\* run_again has been called on a Done list.
C6_Witness ==
    lastCall.op = "run_again" /\ lastCall.pre = "Done"

\* C7: run_again called when the state is Busy or Mapping returns false and
\* changes neither the state nor the command sequence.
C7_RunAgainRefusedWhileBusy ==
    [][\A c \in Callers :
         (RunAgain(c) /\ state \in {"Busy", "Mapping"}) =>
             (lastCall'.ret = "false" /\ state' = state /\ commands' = commands)]_vars

\* run_again has been called on a Busy list, which is still Busy.
C7_WitnessBusy ==
    lastCall.op = "run_again" /\ lastCall.pre = "Busy" /\ state = "Busy"

\* C8 as stated: run_again called when the state is Init returns false and
\* leaves the state Init.
C8_RunAgainRefusedInInit ==
    (lastCall.op = "run_again" /\ lastCall.pre = "Init") =>
        (lastCall.ret = "false" /\ lastCall.post = "Init")

\* C8 amended: run_again returns false exactly when the state is Busy or
\* Mapping; when the state is Init it returns true and leaves the state Init.
C8_RunAgainRefusedOnlyWhileBusy ==
    [][\A c \in Callers :
         RunAgain(c) =>
             /\ lastCall'.ret = "false" <=> state \in {"Busy", "Mapping"}
             /\ state = "Init" => (lastCall'.ret = "true" /\ state' = "Init")]_vars

\* run_again has been called on an Init list.
C8_Witness ==
    lastCall.op = "run_again" /\ lastCall.pre = "Init" /\ state = "Init"

\* C9: the state is always one of the four, and every change of it is
\* Init -> Busy by the prepare phase, Busy -> Mapping by the map phase,
\* Mapping -> Done by a completion callback or Done -> Init by run_again.
C9_OnlyLifecycleTransitions ==
    /\ [](state \in CommandListState)
    /\ [][(state' # state) =>
            \/ state = "Init" /\ state' = "Busy" /\ rpc = "prepare"
            \/ state = "Busy" /\ state' = "Mapping" /\ rpc = "map_begin"
            \/ state = "Mapping" /\ state' = "Done" /\ fired' = fired + 1
            \/ state = "Done" /\ state' = "Init" /\ lastCall'.op = "run_again"]_vars

\* A list that went Init -> Busy -> Mapping and on which run_again was tried
\* meanwhile.
C9_Witness ==
    mapped /\ state = "Mapping" /\ lastCall.op = "run_again"

\* C10: at the first async_finish of a run the state is already Mapping and
\* the counter equals the number of commands; the state stays Mapping for
\* every later async_finish, and every completion callback of the run fires
\* with the state Mapping.
C10_MappingBeforeAsyncFinish ==
    /\ cbSeen \subseteq {"Mapping"}
    /\ (rpc = "map_finish" /\ k <= Len(commands)) => state = "Mapping"
    /\ (rpc = "map_finish" /\ k = 1) => (count = Len(commands) /\ fired = 0)

\* A callback has fired while map_commands is still in its loop.
C10_WitnessSync ==
    rpc = "map_finish" /\ fired > 0 /\ "Mapping" \in cbSeen

\* The threads that lock the mutexes of the list.
Threads == {RenderThread} \cup {CallerThread(c) : c \in Callers}

\* Thread t holds the mutex named l.
Holds(t, l) == IF l = "commands" THEN commandsLock = t ELSE stateLock = t

\* Thread t has asked for the mutex named l and does not have it yet: it is
\* between the two halves of CommandListData::lock, or it is the render
\* thread about to run a completion callback that locks the state.
Waits(t, l) ==
    /\ ~Holds(t, l)
    /\ \/ /\ l = LockOrder[2]
          /\ \/ t = RenderThread /\ rpc \in {"prepare", "node_run", "map_begin"}
             \/ \E c \in Callers : t = CallerThread(c) /\ cpc[c] = "lock_state"
       \/ /\ l = "state"
          /\ t = RenderThread
          /\ rpc = "map_finish"
          /\ k <= Len(commands)
          /\ ~AsyncFinishPanics(commands[k])
          /\ ~MapsBuffer(commands[k])
          /\ CounterHit(count)

\* No two threads wait for a mutex the other one holds: one holding the state
\* mutex and waiting for the commands mutex, the other the reverse.
NoMutualWait ==
    \A t1, t2 \in Threads :
        ~(/\ t1 # t2
          /\ Holds(t1, "state")
          /\ Holds(t2, "commands")
          /\ Waits(t1, "commands")
          /\ Waits(t2, "state"))

\* C11: a thread that comes to hold both mutexes held the commands mutex
\* first; no thread takes the commands mutex while it holds the state mutex;
\* and no two threads ever wait for each other's mutex.
C11_CommandsThenState ==
    /\ []NoMutualWait
    /\ [][\A t \in Threads :
            /\ (commandsLock' = t /\ commandsLock # t) => stateLock # t
            /\ (stateLock' = t /\ stateLock # t /\ commandsLock' = t) => commandsLock = t]_vars

\* A caller holds both mutexes through its guard while a completion of the
\* run is still to fire and the render thread is between phases.
C11_Witness ==
    \E c \in Callers :
        /\ cpc[c] = "guard"
        /\ commandsLock = CallerThread(c)
        /\ stateLock = CallerThread(c)
        /\ state = "Mapping"
        /\ inflight > 0

\* C12: while map_commands calls async_finish on the commands of the list it
\* does not hold the state mutex, so a completion callback that has to lock
\* the state, on this thread or on another, is never blocked by map_commands.
C12_StateUnlockedDuringAsyncFinish ==
    rpc = "map_finish" => stateLock # RenderThread

\* The callback of the first command has run inside its async_finish, on the
\* thread of map_commands, and map_commands is about to call async_finish on
\* the second command: the state mutex is there for the taking.
C12_Witness ==
    /\ rpc = "map_finish"
    /\ k = 2
    /\ k <= Len(commands)
    /\ fired = 1
    /\ inflight = 0
    /\ commandsLock = RenderThread
    /\ stateLock = Free

\* C13 as stated: when map_commands calls async_finish it holds neither the
\* commands mutex nor the state mutex of the list.
C13_NoLockAcrossAsyncFinish ==
    (rpc = "map_finish" /\ k <= Len(commands)) =>
        (commandsLock # RenderThread /\ stateLock # RenderThread)

\* C13 as the code has it: for the whole loop over async_finish map_commands
\* holds the commands mutex and not the state mutex; it gives the commands
\* mutex up when the loop ends, whether or not the completions have fired.
C13_CommandsLockHeldStateLockFree ==
    /\ [](rpc = "map_finish" => (commandsLock = RenderThread /\ stateLock # RenderThread))
    /\ [][(rpc = "map_finish" /\ rpc' = "idle") => commandsLock' = Free]_vars

\* The loop has ended and the guard is dropped while a completion is still to
\* fire.
C13_Witness ==
    /\ rpc = "idle"
    /\ mapped
    /\ inflight > 0
    /\ commandsLock = Free
    /\ state = "Mapping"

\* The operations of VoxelCommand in the order of its contract.
RunOrder == <<"prepare", "add_pass", "add_copy", "async_finish">>

IsPrefix(s, t) == Len(s) <= Len(t) /\ s = SubSeq(t, 1, Len(s))

\* C14: in a run the operations called on a command are prepare, add_pass,
\* add_copy, async_finish, each once and in this order: add_pass only on a
\* command prepared in this run, async_finish only on a command whose
\* add_pass and add_copy were called in this run.
C14_FourOperationsInOrder ==
    \A i \in 1..Len(commands) : IsPrefix(commands[i].ops, RunOrder)

\* C15 as stated: when the state becomes Busy, prepare, add_pass and add_copy
\* have been called on every command of the list.
C15_DispatchedWhenBusy ==
    [][(state = "Init" /\ state' = "Busy") =>
          \A i \in 1..Len(commands') :
              commands'[i].ops = <<"prepare", "add_pass", "add_copy">>]_vars

\* C15 as the code has it: when the state becomes Busy, prepare and nothing
\* else has been called on every command of the list; a prepare phase that
\* panics has prepared a prefix of the list; and add_pass is called later, by
\* the graph node, on a list that is and stays Busy.
C15_PreparedWhenBusy ==
    /\ [][(state = "Init" /\ state' = "Busy") =>
            \A i \in 1..Len(commands') : commands'[i].ops = <<"prepare">>]_vars
    /\ []((rpc = "panicked" /\ state = "Init") =>
            \A i, j \in 1..Len(commands) :
                (i < j /\ commands[j].ops # <<>>) => commands[i].ops = <<"prepare">>)
    /\ [][(\E i \in 1..Len(commands) :
              /\ i <= Len(commands')
              /\ Len(commands'[i].ops) > Len(commands[i].ops)
              /\ commands'[i].ops[Len(commands'[i].ops)] \in {"add_pass", "add_copy"})
          => (state = "Busy" /\ state' = "Busy" /\ rpc = "node_run")]_vars

\* The list has just become Busy: both of its commands are prepared and the
\* graph node has not run yet.
C15_Witness ==
    /\ state = "Busy"
    /\ rpc = "node"
    /\ pending = 1
    /\ Len(commands) = 2
    /\ \A i \in 1..Len(commands) : commands[i].ops = <<"prepare">>

\* C16: the prepare phase leaves a list that is Busy, Mapping or Done alone:
\* it calls prepare on no command (the commands and the shared grid stay as
\* they are), it does not change the state, and it does not push the list on
\* the pending lists.
C16_PrepareSkipsNonInit ==
    [][(rpc = "prepare" /\ rpc' # "prepare" /\ state # "Init") =>
          /\ state' = state
          /\ commands' = commands
          /\ grid' = grid
          /\ pending' = pending
          /\ rpc' = "node"]_vars

\* The prepare phase has just passed over a list that is Mapping.
C16_Witness ==
    /\ rpc = "node"
    /\ state = "Mapping"
    /\ pending = 0
    /\ Len(commands) > 0

\* The commands that work on a grid some earlier command has to create.
RequiresGrid == {"PasteCube", "PasteSphere", "GenerateMesh", "GetVoxels"}

\* C17: when the prepare phase reaches a command that requires a grid while
\* the shared grid is None, prepare of that command does not return: the run
\* is aborted there.  The first command of a list meets the grid as the list
\* found it.
C17_PrepareAbortsWithoutGrid ==
    [][(/\ rpc = "prepare"
        /\ rpc' # "prepare"
        /\ state = "Init"
        /\ ~grid.some
        /\ Len(commands) >= 1
        /\ commands[1].kind \in RequiresGrid)
       => (rpc' = "panicked" /\ state' = "Init" /\ commands'[1].ops = <<>>)]_vars

\* C18: the registry built by from_world has every entry point a built-in
\* command looks up, so no run of a list of built-in commands ends in the
\* panic for an unknown name.
C18_NoUnknownEntryPoint ==
    panicWhy # "unknown_name"

\* C19: CreateGridCommand::prepare, whenever it returns, leaves the shared
\* grid Some with the requested size; a grid that had that size already is
\* left as it is (same buffer), any other is replaced by a new grid with a
\* new buffer; and a second prepare changes nothing.  Checked for every grid
\* the program reaches and every size, and at the step of the prepare phase
\* for a list that ends with a CreateGridCommand.
C19_CreateGridIdempotent ==
    /\ [](\A sz \in GridSizes :
            LET cmd == NewCommand("CreateGrid", sz)
                r1 == PrepareCommand(cmd, grid)
                r2 == PrepareCommand(r1.cmd, r1.grid)
            IN ~r1.panic =>
                 /\ r1.grid.some
                 /\ r1.grid.size = sz
                 /\ (grid.some /\ grid.size = sz) => r1.grid = grid
                 /\ ~(grid.some /\ grid.size = sz) => r1.grid.buf # grid.buf
                 /\ ~r2.panic
                 /\ r2.grid = r1.grid
                 /\ r2.cmd = r1.cmd)
    /\ [][(/\ state = "Init"
           /\ state' = "Busy"
           /\ Len(commands) >= 1
           /\ commands[Len(commands)].kind = "CreateGrid")
          => /\ grid'.some
             /\ grid'.size = commands[Len(commands)].size
             /\ (/\ Len(commands) = 2
                 /\ commands[1].kind = "CreateGrid"
                 /\ commands[1].size = commands[2].size) => grid'.buf = grid.buf + 1]_vars

\* The prepare phase has run two CreateGridCommands of the same size: the
\* second one found the grid of the first and kept it.
C19_Witness ==
    /\ state = "Busy"
    /\ Len(commands) = 2
    /\ \A i \in 1..2 : commands[i].kind = "CreateGrid" /\ commands[i].ops = <<"prepare">>
    /\ commands[1].size = commands[2].size
    /\ grid.some
    /\ grid.buf = 1

\* The commands whose async_finish has nothing to map.
NothingToMap == {"CreateGrid", "PasteCube", "PasteSphere"}

\* C20: async_finish of a CreateGridCommand or a GeometryCommand calls the
\* completion callback once, with Ok, before it returns: the step of
\* map_commands over such a command fires exactly one callback, without a
\* failure, and leaves no map request in flight.
C20_NothingToMapCompletesAtOnce ==
    [][(/\ rpc = "map_finish"
        /\ k <= Len(commands)
        /\ commands[k].kind \in NothingToMap
        /\ (k' # k \/ rpc' # rpc))
       => /\ rpc' = rpc
          /\ k' = k + 1
          /\ fired' = fired + 1
          /\ failed' = failed
          /\ count' = count - 1
          /\ inflight' = inflight
          /\ commands'[k].ops = Append(commands[k].ops, "async_finish")]_vars

\* map_commands has called async_finish on a CreateGridCommand and on a
\* PasteSphere after it, and both callbacks have fired with Ok.
C20_Witness ==
    /\ rpc = "map_finish"
    /\ k = 3
    /\ Len(commands) = 2
    /\ commands[1].kind = "CreateGrid"
    /\ commands[2].kind = "PasteSphere"
    /\ commands[2].ops = RunOrder
    /\ fired = 2
    /\ failed = 0
    /\ inflight = 0

VERTEXES_PER_FACE == 6
FACES_PER_VOXEL == 6
FACE_FILLED_NUM_BITS == 30

\* The largest num_voxels of the GenerateMeshImpl given to get_mesh.
MaxVoxels == 6

\* The bits of a u32.
WordBits == 0..31

\* The bits set in the words of the face_filled region given to get_mesh: the
\* first and the last usable bits, the two reserved bits, and bits on both
\* sides of the last face of a grid of one voxel and of six voxels.
BitChoices == {0, 1, 5, 6, 29, 30, 31}

\* GenerateMeshImpl::new: the number of u32 words of the face_filled region.
FaceFilledWords(numVoxels) ==
    (numVoxels * FACES_PER_VOXEL + FACE_FILLED_NUM_BITS - 1) \div FACE_FILLED_NUM_BITS

\* Element n of src_vertexes and of src_normals, a Vec4 each: the dense
\* output of the kernel, every element different from every other.
SrcVertex(n) == [x |-> n, y |-> 1, z |-> 2, w |-> 3]
SrcNormal(n) == [x |-> n, y |-> 4, z |-> 5, w |-> 6]

\* The two dense regions of the mapped buffer as slices, 0-based: six
\* vertexes for each of the six faces of every voxel.
src_vertexes(numVoxels) ==
    [n \in 0..(numVoxels * FACES_PER_VOXEL * VERTEXES_PER_FACE - 1) |-> SrcVertex(n)]

src_normals(numVoxels) ==
    [n \in 0..(numVoxels * FACES_PER_VOXEL * VERTEXES_PER_FACE - 1) |-> SrcNormal(n)]

\* Vec3::default().
Vec3Default == [x |-> 0, y |-> 0, z |-> 0]

vec4_to_3(v) == [x |-> v.x, y |-> v.y, z |-> v.z]

\* Faulty variant of count_ones: a word counts for one face at most.
CountOnes_AtMostOne(word) == IF word = {} THEN 0 ELSE 1

\* u32::count_ones of a word, a word being the set of its set bits.
CountOnes(word) == Cardinality(word)

\* get_mesh, the first loop: the sum of count_ones over all words.
RECURSIVE CountFaces(_, _)
CountFaces(faceFilled, w) ==
    IF w > Len(faceFilled) THEN 0
    ELSE CountOnes(faceFilled[w]) + CountFaces(faceFilled, w + 1)

\* Faulty variants of the test of get_mesh on face i: all 32 bits of a word
\* are used; the word is always the first.
FaceIsFilled_32Bits(faceFilled, i) ==
    (i % 32) \in faceFilled[(i \div 32) + 1]

FaceIsFilled_FirstWord(faceFilled, i) ==
    (i % FACE_FILLED_NUM_BITS) \in faceFilled[1]

\* get_mesh, the test on face i:
\* face_filled[i / FACE_FILLED_NUM_BITS] & (1 << (i % FACE_FILLED_NUM_BITS)) != 0.
FaceIsFilled(faceFilled, i) ==
    (i % FACE_FILLED_NUM_BITS) \in faceFilled[(i \div FACE_FILLED_NUM_BITS) + 1]

\* get_mesh, the inner loop for face i with the cursor at filled: the six
\* vertexes (or normals) of the face, j = 0..5, go to the next six slots of
\* out.  src is src_vertexes or src_normals; out is 1-based, the vectors of the
\* code 0-based.
CopyFace(src, out, i, filled) ==
    [n \in DOMAIN out |->
        LET j == n - 1 - filled * VERTEXES_PER_FACE
        IN IF 0 <= j /\ j < VERTEXES_PER_FACE
           THEN vec4_to_3(src[i * VERTEXES_PER_FACE + j])
           ELSE out[n]]

\* get_mesh, the second loop from face i on: acc holds vertexes, normals and
\* the cursor filled.
RECURSIVE ExtractFrom(_, _, _, _)
ExtractFrom(numVoxels, faceFilled, i, acc) ==
    IF i >= numVoxels * FACES_PER_VOXEL THEN acc
    ELSE IF FaceIsFilled(faceFilled, i)
    THEN ExtractFrom(numVoxels, faceFilled, i + 1,
                     [vertexes |-> CopyFace(src_vertexes(numVoxels), acc.vertexes, i, acc.filled),
                      normals |-> CopyFace(src_normals(numVoxels), acc.normals, i, acc.filled),
                      filled |-> acc.filled + 1])
    ELSE ExtractFrom(numVoxels, faceFilled, i + 1, acc)

\* Faulty variant of the assertion of get_mesh: it is compiled out.
AssertFails_Never(filled, numFaces) == FALSE

\* get_mesh: assert!(filled == num_faces) fails.
AssertFails(filled, numFaces) == filled # numFaces

\* GenerateMeshImpl::get_mesh on a mapped buffer whose face_filled region
\* holds the words faceFilled: the vectors it returns, or the panic of its
\* assertion.
get_mesh(numVoxels, faceFilled) ==
    LET numFaces == CountFaces(faceFilled, 1)
        empty == [n \in 1..(numFaces * VERTEXES_PER_FACE) |-> Vec3Default]
        r == ExtractFrom(numVoxels, faceFilled, 0,
                         [vertexes |-> empty, normals |-> empty, filled |-> 0])
    IN [panic |-> AssertFails(r.filled, numFaces),
        vertexes |-> r.vertexes,
        normals |-> r.normals,
        filled |-> r.filled,
        num_faces |-> numFaces]

\* An index into a slice of len elements, as get_mesh uses it.
IndexUse(slice, index, len) == [slice |-> slice, index |-> index, len |-> len]

\* get_mesh, the indexes of the inner loop for face i with the cursor at
\* filled: src_vertexes and src_normals at i * 6 + j, vertexes and normals at
\* filled * 6 + j, the former of 36 * num_voxels elements, the latter of
\* num_faces * 6.
FaceIndexes(numVoxels, numFaces, i, filled) ==
    UNION {{IndexUse("src_vertexes", i * VERTEXES_PER_FACE + j,
                     numVoxels * FACES_PER_VOXEL * VERTEXES_PER_FACE),
            IndexUse("src_normals", i * VERTEXES_PER_FACE + j,
                     numVoxels * FACES_PER_VOXEL * VERTEXES_PER_FACE),
            IndexUse("vertexes", filled * VERTEXES_PER_FACE + j, numFaces * VERTEXES_PER_FACE),
            IndexUse("normals", filled * VERTEXES_PER_FACE + j, numFaces * VERTEXES_PER_FACE)}
           : j \in 0..(VERTEXES_PER_FACE - 1)}

\* get_mesh, every index the second loop uses from face i on, the cursor
\* being at filled; the loop ends at the first index out of bounds, where the
\* code panics.
RECURSIVE IndexesFrom(_, _, _, _, _)
IndexesFrom(numVoxels, faceFilled, numFaces, i, filled) ==
    IF i >= numVoxels * FACES_PER_VOXEL THEN {}
    ELSE LET word == IndexUse("face_filled", i \div FACE_FILLED_NUM_BITS, Len(faceFilled))
         IN IF word.index >= word.len THEN {word}
            ELSE IF ~FaceIsFilled(faceFilled, i)
            THEN {word} \cup IndexesFrom(numVoxels, faceFilled, numFaces, i + 1, filled)
            ELSE LET face == FaceIndexes(numVoxels, numFaces, i, filled)
                 IN IF \E u \in face : u.index >= u.len THEN {word} \cup face
                    ELSE {word} \cup face
                         \cup IndexesFrom(numVoxels, faceFilled, numFaces, i + 1, filled + 1)

\* get_mesh: every index it uses on a mapped buffer.
get_mesh_indexes(numVoxels, faceFilled) ==
    IndexesFrom(numVoxels, faceFilled, CountFaces(faceFilled, 1), 0, 0)

\* The face_filled region of a grid of numVoxels voxels all faces of which
\* are present.
AllFaces(numVoxels) ==
    [w \in 1..FaceFilledWords(numVoxels) |->
        {b \in 0..(FACE_FILLED_NUM_BITS - 1) :
            (w - 1) * FACE_FILLED_NUM_BITS + b < numVoxels * FACES_PER_VOXEL}]

\* The mapped buffers get_mesh is called on: num_voxels and the words of the
\* face_filled region, with some bits set or with every face present.
MeshInputs ==
    UNION {[fn : {"get_mesh"}, num_voxels : {v},
            face_filled : [1..FaceFilledWords(v) -> SUBSET BitChoices] \cup {AllFaces(v)},
            done : {FALSE}]
           : v \in 0..MaxVoxels}

\* A call of get_mesh returns or panics.
GetMeshCall ==
    /\ calc.fn = "get_mesh"
    /\ ~calc.done
    /\ calc' = [calc EXCEPT !.done = TRUE]
                @@ [out |-> get_mesh(calc.num_voxels, calc.face_filled),
                    used |-> get_mesh_indexes(calc.num_voxels, calc.face_filled)]
    /\ UNCHANGED <<listVars, compVars>>

\* A list that nothing runs, while functions of voxel.rs are called.
ListIdle ==
    /\ state = "Init"
    /\ commands = <<>>
    /\ stateLock = Free
    /\ commandsLock = Free
    /\ grid = NoGrid
    /\ pending = 0
    /\ rpc = "idle"
    /\ panicWhy = ""
    /\ k = 0
    /\ count = 0
    /\ inflight = 0
    /\ cpc = [c \in Callers |-> "idle"]
    /\ lastCall = NoCall
    /\ mapped = FALSE
    /\ runN = 0
    /\ fired = 0
    /\ failed = 0
    /\ hits = 0
    /\ cbSeen = {}
    /\ closure = NoClosure

InitMesh == ListIdle /\ CompIdle /\ calc \in MeshInputs

NextMesh == GetMeshCall

MeshSpec == InitMesh /\ [][NextMesh]_vars

\* The faces marked in the words faceFilled, by face index: face i is bit
\* i mod 30 of word i div 30.
MarkedFaces(numVoxels, faceFilled) ==
    {i \in 0..(numVoxels * FACES_PER_VOXEL - 1) :
        (i % 30) \in faceFilled[(i \div 30) + 1]}

\* Only bits that stand for a face of the grid are set: no reserved bit (30,
\* 31) and no bit past the last face.
OnlyFaceBits(numVoxels, faceFilled) ==
    \A w \in 1..Len(faceFilled) : \A b \in faceFilled[w] :
        b < 30 /\ (w - 1) * 30 + b < numVoxels * FACES_PER_VOXEL

RECURSIVE Ascending(_)
Ascending(S) ==
    IF S = {} THEN <<>>
    ELSE LET m == CHOOSE x \in S : \A y \in S : x <= y
         IN <<m>> \o Ascending(S \ {m})

\* C23: for a region in which exactly the faces of a set S are marked,
\* get_mesh returns |S|*6 vertexes and |S|*6 normals; the k-th face of the
\* output is the k-th smallest index i of S, and its six slots hold source
\* vertexes (and normals) 6i .. 6i+5 in order, also when S has faces in more
\* than one word.
C23_ExtractsMarkedFacesInOrder ==
    (/\ calc.fn = "get_mesh"
     /\ calc.done
     /\ OnlyFaceBits(calc.num_voxels, calc.face_filled)) =>
        LET S == MarkedFaces(calc.num_voxels, calc.face_filled)
            order == Ascending(S)
        IN /\ ~calc.out.panic
           /\ Len(calc.out.vertexes) = Cardinality(S) * 6
           /\ Len(calc.out.normals) = Cardinality(S) * 6
           /\ \A f \in 1..Len(order) : \A j \in 0..5 :
                 /\ calc.out.vertexes[(f - 1) * 6 + j + 1]
                      = [x |-> order[f] * 6 + j, y |-> 1, z |-> 2]
                 /\ calc.out.normals[(f - 1) * 6 + j + 1]
                      = [x |-> order[f] * 6 + j, y |-> 4, z |-> 5]

\* get_mesh has returned the faces 1, 29, 30 and 35 of a grid of six voxels:
\* the set spans both words of the region.
C23_Witness ==
    /\ calc.fn = "get_mesh"
    /\ calc.done
    /\ calc.num_voxels = 6
    /\ calc.face_filled = <<{1, 29}, {0, 5}>>
    /\ Len(calc.out.vertexes) = 24
    /\ calc.out.vertexes[13].x = 180

\* C24: whenever get_mesh returns, for a grid of V voxels, the vertexes and
\* the normals are equally many, a multiple of 6, and at most V*6*6.
C24_MeshLengths ==
    (calc.fn = "get_mesh" /\ calc.done /\ ~calc.out.panic) =>
        /\ Len(calc.out.vertexes) = Len(calc.out.normals)
        /\ Len(calc.out.vertexes) % 6 = 0
        /\ Len(calc.out.vertexes) <= calc.num_voxels * 6 * 6

\* get_mesh has returned all 36 faces of a grid of six voxels: the dense
\* upper bound is reached.
C24_Witness ==
    /\ calc.fn = "get_mesh"
    /\ calc.done
    /\ ~calc.out.panic
    /\ calc.num_voxels = 6
    /\ calc.face_filled = AllFaces(6)
    /\ Len(calc.out.vertexes) = 216

\* ------------------------------------- integer arithmetic of fixed width

\* Values of usize and their exact products are written in digits of 15
\* bits, least significant digit first, NumDigits digits each: enough for the
\* exact product of three sizes and 4 (below 2^95).
Digit == 2^15
NumDigits == 7

\* The width of usize and of u32 / i32, in bits.
UsizeBits == 64
U32Bits == 32

\* A value below 2^31 in digits.
Big(n) ==
    [d \in 1..NumDigits |->
        CASE d = 1 -> n % Digit
          [] d = 2 -> (n \div Digit) % Digit
          [] d = 3 -> n \div (Digit * Digit)
          [] OTHER -> 0]

\* a + b in digits, from digit d on with the carry c.
RECURSIVE BigAddFrom(_, _, _, _)
BigAddFrom(a, b, d, c) ==
    IF d > NumDigits THEN <<>>
    ELSE <<(a[d] + b[d] + c) % Digit>>
           \o BigAddFrom(a, b, d + 1, (a[d] + b[d] + c) \div Digit)

BigAdd(a, b) == BigAddFrom(a, b, 1, 0)

\* a times the single digit m, from digit d on with the carry c.
RECURSIVE BigMulDigitFrom(_, _, _, _)
BigMulDigitFrom(a, m, d, c) ==
    IF d > NumDigits THEN <<>>
    ELSE <<(a[d] * m + c) % Digit>>
           \o BigMulDigitFrom(a, m, d + 1, (a[d] * m + c) \div Digit)

\* a times Digit^n.
BigShift(a, n) == [d \in 1..NumDigits |-> IF d <= n THEN 0 ELSE a[d - n]]

\* The exact product a * b, digit by digit of b.
RECURSIVE BigMulFrom(_, _, _)
BigMulFrom(a, b, d) ==
    IF d > NumDigits THEN Big(0)
    ELSE BigAdd(BigShift(BigMulDigitFrom(a, b[d], 1, 0), d - 1), BigMulFrom(a, b, d + 1))

BigMul(a, b) == BigMulFrom(a, b, 1)

\* a >= b, compared from the most significant digit d down.
RECURSIVE BigGeqFrom(_, _, _)
BigGeqFrom(a, b, d) ==
    IF d = 0 THEN TRUE
    ELSE IF a[d] # b[d] THEN a[d] > b[d]
    ELSE BigGeqFrom(a, b, d - 1)

BigGeq(a, b) == BigGeqFrom(a, b, NumDigits)

\* a modulo 2^bits: what a register of that width keeps.
BigWrap(a, bits) ==
    [d \in 1..NumDigits |->
        IF 15 * d <= bits THEN a[d]
        ELSE IF 15 * (d - 1) < bits THEN a[d] % (2^(bits - 15 * (d - 1)))
        ELSE 0]

\* ------------------------------------------------- grid sizes and indexes

\* One multiplication in usize. With overflow checks (a debug build) a
\* product that does not fit panics; without them (a release build) the
\* register keeps the product modulo 2^64.
UsizeMul(a, b) ==
    [val |-> BigWrap(BigMul(a, b), UsizeBits),
     overflow |-> BigWrap(BigMul(a, b), UsizeBits) # BigMul(a, b)]

GridSizePanic(why) == [panic |-> why, vec_size |-> Big(0), buf_size |-> Big(0)]

\* check_grid_size: the guard of every size, and the lengths it returns.
check_grid_size(size, checks) ==
    IF \E c \in 1..3 : size[c] >= I32Max - 2 THEN GridSizePanic("too_large")
    ELSE LET xy == UsizeMul(Big(size[1] + 2), Big(size[2] + 2))
             vec == UsizeMul(xy.val, Big(size[3] + 2))
             buf == UsizeMul(vec.val, Big(4))
         IN IF checks /\ (xy.overflow \/ vec.overflow \/ buf.overflow)
            THEN GridSizePanic("overflow")
            ELSE IF BigGeq(buf.val, Big(I32Max)) THEN GridSizePanic("too_large")
            ELSE [panic |-> "", vec_size |-> vec.val, buf_size |-> buf.val]

get_vec_size(size, checks) == check_grid_size(size, checks).vec_size

get_buf_size(size, checks) == check_grid_size(size, checks).buf_size

\* The size components tried: small ones, the two around the largest grid of
\* one row, one whose padded length is 2^30, and the two around the first test.
SizeChoices == {0, 1, 2, 14, 2^27 - 3, 2^27 - 2, 2^30 - 2, I32Max - 3, I32Max - 2}

GridSizeInputs ==
    {[fn |-> "check_grid_size", size |-> <<x, y, z>>, checks |-> b, done |-> FALSE] :
        x \in SizeChoices, y \in SizeChoices, z \in SizeChoices, b \in BOOLEAN}

\* A call of get_vec_size and get_buf_size on the size drawn.
CheckGridSizeCall ==
    /\ calc.fn = "check_grid_size" /\ ~calc.done
    /\ calc' = [calc EXCEPT !.done = TRUE]
                 @@ [out |-> check_grid_size(calc.size, calc.checks)]
    /\ UNCHANGED <<listVars, compVars>>

\* One operation in u32 whose exact result is e: the register keeps e modulo
\* 2^32, and a build with overflow checks panics if that differs from e.
U32Op(e) == [val |-> BigWrap(e, U32Bits), overflow |-> BigWrap(e, U32Bits) # e]

\* The same in i32, for operands that are not negative: the bit pattern kept
\* is the same, and the result overflows from 2^31 on.
I32Op(e) == [val |-> BigWrap(e, U32Bits), overflow |-> BigGeq(e, BigAdd(Big(I32Max), Big(1)))]

\* `as usize` of a u32 extends with zeros, of an i32 with the sign bit (bit 31,
\* the second bit of the third digit).
U32AsUsize(v) == v

I32AsUsize(v) ==
    IF v[3] < 2 THEN v
    ELSE [d \in 1..NumDigits |->
            CASE d = 3 -> v[3] + (Digit - 4)
              [] d = 4 -> Digit - 1
              [] d = 5 -> 2^(UsizeBits - 60) - 1
              [] OTHER -> v[d]]

\* (x + 1) + (y + 1) * (size.x + 2) + (z + 1) * (size.x + 2) * (size.y + 2),
\* in the arithmetic of the coordinate type (i32 if signed, else u32) and in the
\* order Rust evaluates it.
IndexExpr(signed, size, x, y, z) ==
    LET Op(e) == IF signed THEN I32Op(e) ELSE U32Op(e)
        x1 == Op(Big(x + 1))
        yRow == Op(BigMul(Big(y + 1), Big(size[1] + 2)))
        zRow == Op(BigMul(Big(z + 1), Big(size[1] + 2)))
        zPlane == Op(BigMul(zRow.val, Big(size[2] + 2)))
        sum1 == Op(BigAdd(x1.val, yRow.val))
        sum2 == Op(BigAdd(sum1.val, zPlane.val))
    IN [val |-> sum2.val,
        overflow |-> x1.overflow \/ yRow.overflow \/ zRow.overflow
                       \/ zPlane.overflow \/ sum1.overflow \/ sum2.overflow]

IndexPanic == [panic |-> "overflow", index |-> Big(0)]

voxel_index(size, x, y, z, checks) ==
    LET e == IndexExpr(FALSE, size, x, y, z)
    IN IF checks /\ e.overflow THEN IndexPanic
       ELSE [panic |-> "", index |-> U32AsUsize(e.val)]

voxel_index_i32(size, x, y, z, checks) ==
    LET e == IndexExpr(TRUE, size, x, y, z)
    IN IF checks /\ e.overflow THEN IndexPanic
       ELSE [panic |-> "", index |-> I32AsUsize(e.val)]

\* The largest component of the sizes whose every cell is visited.
MaxDim == 2

SmallSizes == {<<x, y, z>> : x \in 0..MaxDim, y \in 0..MaxDim, z \in 0..MaxDim}

\* Sizes too large to visit cell by cell: the largest grids of one row along
\* x and along z, and one whose padded length is 2^64.
LargeSizes == {<<2^27 - 3, 0, 0>>, <<0, 0, 2^27 - 3>>, <<2^30 - 2, 2^30 - 2, 14>>}

\* The padded coordinate range of a size, and its two far corners.
PaddedRange(size) ==
    {<<x, y, z>> : x \in -1..size[1], y \in -1..size[2], z \in -1..size[3]}

Corners(size) == {<<-1, -1, -1>>, size}

\* The coordinates the index functions are applied to.
IndexCoords(size) == IF size \in SmallSizes THEN PaddedRange(size) ELSE Corners(size)

IndexInputs ==
    {[fn |-> "voxel_index", size |-> s, checks |-> b, done |-> FALSE] :
        s \in SmallSizes \cup LargeSizes, b \in BOOLEAN}

\* get_vec_size of the size drawn, voxel_index_i32 of every coordinate tried
\* and voxel_index of those with no negative component.
VoxelIndexCall ==
    /\ calc.fn = "voxel_index" /\ ~calc.done
    /\ calc' = [calc EXCEPT !.done = TRUE]
                 @@ [out |-> [guard |-> check_grid_size(calc.size, calc.checks),
                              i32 |-> [c \in IndexCoords(calc.size) |->
                                         voxel_index_i32(calc.size, c[1], c[2], c[3], calc.checks)],
                              u32 |-> [c \in {p \in IndexCoords(calc.size) : \A a \in 1..3 : p[a] >= 0} |->
                                         voxel_index(calc.size, c[1], c[2], c[3], calc.checks)]]]
    /\ UNCHANGED <<listVars, compVars>>

\* A value below 2^31 as a number.
Small(a) == a[1] + a[2] * Digit + a[3] * Digit * Digit

\* A voxel word: bytes 0..2 are the corner offsets, byte 3 is the material.
MaterialWord(material) == U32Op(BigMul(Big(material), Big(2^24))).val

ZeroWord == Big(0)

MaterialOf(word) == (word[2] \div 2^9) + (word[3] % 4) * 2^6

OffsetsOf(word) == word[1] + (word[2] % 2^9) * Digit

\* The unpadded cells of a size.
Unpadded(size) ==
    {<<x, y, z>> : x \in 0..(size[1] - 1), y \in 0..(size[2] - 1), z \in 0..(size[3] - 1)}

\* The cells the loop of VoxelGridVec::new writes. A size that is not visited
\* cell by cell enters the loop at 0,0,0 if no component is 0.
NewWrites(size, material) ==
    IF material = 0 THEN {}
    ELSE IF size \in SmallSizes THEN Unpadded(size)
    ELSE IF \A a \in 1..3 : size[a] > 0 THEN {<<0, 0, 0>>}
    ELSE {}

NewPanic(size, why) == [panic |-> why, size |-> size, data |-> <<>>]

\* VoxelGridVec::new: data of get_vec_size(size) zero words, then the material
\* written at the index of every unpadded cell; a write past the end panics.
VoxelGridVec_new(size, material, checks) ==
    LET guard == check_grid_size(size, checks)
        writes == [c \in NewWrites(size, material) |-> voxel_index(size, c[1], c[2], c[3], checks)]
    IN IF guard.panic # "" THEN NewPanic(size, guard.panic)
       ELSE IF \E c \in DOMAIN writes : writes[c].panic # "" THEN NewPanic(size, "overflow")
       ELSE IF \E c \in DOMAIN writes : BigGeq(writes[c].index, guard.vec_size)
       THEN NewPanic(size, "index_out_of_bounds")
       ELSE [panic |-> "", size |-> size,
             data |-> [i \in 1..Small(guard.vec_size) |->
                         IF \E c \in DOMAIN writes : Small(writes[c].index) = i - 1
                         THEN MaterialWord(material) ELSE ZeroWord]]

\* The materials tried: empty, the first, one with the top bit of its byte clear
\* and set.
Materials == {0, 1, 127, 255}

NewInputs ==
    {[fn |-> "new", size |-> s, material |-> m, checks |-> b, done |-> FALSE] :
        s \in SmallSizes \cup {<<2^30 - 2, 2^30 - 2, 14>>}, m \in Materials, b \in BOOLEAN}

\* A call of VoxelGridVec::new on the size and material drawn.
NewCall ==
    /\ calc.fn = "new" /\ ~calc.done
    /\ calc' = [calc EXCEPT !.done = TRUE]
                 @@ [out |-> VoxelGridVec_new(calc.size, calc.material, calc.checks)]
    /\ UNCHANGED <<listVars, compVars>>

InitGrid == ListIdle /\ CompIdle /\ calc \in GridSizeInputs \cup IndexInputs \cup NewInputs

NextGrid == CheckGridSizeCall \/ VoxelIndexCall \/ NewCall

GridSpec == InitGrid /\ [][NextGrid]_vars

\* The padded length of a size and its length in bytes as numbers, with no
\* register width.
ExactVecSize(size) == BigMul(BigMul(Big(size[1] + 2), Big(size[2] + 2)), Big(size[3] + 2))

ExactBufSize(size) == BigMul(ExactVecSize(size), Big(4))

SizeTooLarge(size) ==
    \/ \E c \in 1..3 : size[c] >= I32Max - 2
    \/ BigGeq(ExactBufSize(size), Big(I32Max))

\* C27: get_vec_size and get_buf_size panic for every size that is too large,
\* and for every size they accept vec_size is the product (sx+2)(sy+2)(sz+2)
\* as a number, buf_size is 4 * vec_size and buf_size is below i32::MAX.
C27_GridSizeExact ==
    (calc.fn = "check_grid_size" /\ calc.done) =>
        /\ SizeTooLarge(calc.size) => calc.out.panic # ""
        /\ calc.out.panic = "" =>
              /\ calc.out.vec_size = ExactVecSize(calc.size)
              /\ calc.out.buf_size = ExactBufSize(calc.size)
              /\ ~BigGeq(calc.out.buf_size, Big(I32Max))

\* C25: for every size the guard accepts, voxel_index_i32 maps the padded
\* coordinate range one to one onto 0..get_vec_size(size)-1, the index of
\* (sx,sy,sz) is get_vec_size(size) - 1, and voxel_index agrees with it on the
\* coordinates that are not negative.
C25_IndexBijection ==
    (calc.fn = "voxel_index" /\ calc.done /\ calc.out.guard.panic = "") =>
        LET idx == calc.out.i32
            len == calc.out.guard.vec_size
        IN /\ \A c \in DOMAIN idx : idx[c].panic = "" /\ ~BigGeq(idx[c].index, len)
           /\ \A c, e \in DOMAIN idx : idx[c].index = idx[e].index => c = e
           /\ calc.size \in SmallSizes =>
                 {Small(idx[c].index) : c \in DOMAIN idx} = 0..(Small(len) - 1)
           /\ BigAdd(idx[calc.size].index, Big(1)) = len
           /\ \A c \in DOMAIN calc.out.u32 : calc.out.u32[c] = idx[c]

\* The word of the returned data at a padded coordinate.
WordAt(vec, c) == vec.data[Small(voxel_index_i32(vec.size, c[1], c[2], c[3], FALSE).index) + 1]

\* C26: the data VoxelGridVec::new(size, m) returns has length
\* (sx+2)(sy+2)(sz+2); every unpadded voxel has material m and offsets 0, every
\* padding cell is the zero word, and for m = 0 every word is zero.
C26_NewGridContents ==
    (calc.fn = "new" /\ calc.done /\ calc.out.panic = "") =>
        /\ Big(Len(calc.out.data)) = ExactVecSize(calc.size)
        /\ calc.size \in SmallSizes =>
              \A c \in PaddedRange(calc.size) :
                  IF c \in Unpadded(calc.size)
                  THEN /\ MaterialOf(WordAt(calc.out, c)) = calc.material
                       /\ OffsetsOf(WordAt(calc.out, c)) = 0
                  ELSE WordAt(calc.out, c) = ZeroWord
        /\ calc.material = 0 => \A i \in 1..Len(calc.out.data) : calc.out.data[i] = ZeroWord

\* One step of the thread that runs the three scheduler phases.
RenderStep ==
    \/ PrepareLockCommands
    \/ PrepareCommandList
    \/ NodeLockCommands
    \/ NodeRun
    \/ MapLockCommands
    \/ MapCommands
    \/ MapAsyncFinish
    \/ MapEnd

\* How far the thread is through the phases of one frame.
PhaseRank ==
    CASE rpc = "idle" -> 0
      [] rpc = "prepare" -> 1
      [] rpc = "node" -> 2
      [] rpc = "node_run" -> 3
      [] rpc = "map" -> 4
      [] rpc = "map_begin" -> 5
      [] rpc = "map_finish" -> 5 + k
      [] OTHER -> 0

C29_EmptyListReachesDone ==
    (mapped /\ runN = 0 /\ rpc = "idle") => state = "Done"

\* prepare has been called on the command.
Prepared(cmd) == \E j \in 1..Len(cmd.ops) : cmd.ops[j] = "prepare"

\* The reasons for which prepare of a command aborts.
PrepareAborts == {"missing_grid", "unknown_name", "grid_too_large"}

\* C30: when prepare aborts for a command of a list, the state of the list is
\* still Init, the list has not been pushed on the pending lists and both list
\* locks are free; and the state becomes Busy only in a step of
\* prepare_command_list that has prepared every command of the list.
C30_AbortedPrepareLeavesInit ==
    [][/\ rpc = "prepare" /\ rpc' = "panicked" =>
             /\ panicWhy' \in PrepareAborts
             /\ state' = "Init"
             /\ pending' = 0
             /\ stateLock' = Free
             /\ commandsLock' = Free
       /\ state # "Busy" /\ state' = "Busy" =>
             /\ rpc = "prepare" /\ rpc' = "node"
             /\ \A i \in 1..Len(commands') : Prepared(commands'[i])]_vars

\* prepare has aborted at the second command of a list, after the first was
\* prepared.
C30_Witness ==
    /\ rpc = "panicked"
    /\ panicWhy \in {"missing_grid", "unknown_name"}
    /\ Len(commands) = 2
    /\ Prepared(commands[1])
    /\ ~Prepared(commands[2])
    /\ state = "Init"
    /\ pending = 0

\* async_finish is the last call made on the command.
Finished(cmd) == cmd.ops # <<>> /\ cmd.ops[Len(cmd.ops)] = "async_finish"

\* C31: once async_finish has been called on every command of a run and every
\* completion callback has fired, no command holds scratch state of the run
\* (cmd_impl, copy_buffer).
C31_ScratchReleasedByAsyncFinish ==
    (mapped /\ rpc = "idle" /\ inflight = 0 /\ fired = runN) =>
        \A i \in 1..Len(commands) : Finished(commands[i]) => ~commands[i].scratch

\* ------------------------------------------- kernel buffers and dispatches

\* a divided by the small number m, rounded down: long division from the most
\* significant digit, BigRemAbove being the remainder carried into digit d.
RECURSIVE BigRemAbove(_, _, _)
BigRemAbove(a, m, d) ==
    IF d = NumDigits THEN 0
    ELSE (BigRemAbove(a, m, d + 1) * Digit + a[d + 1]) % m

BigDiv(a, m) == [d \in 1..NumDigits |-> (BigRemAbove(a, m, d) * Digit + a[d]) \div m]

\* One addition in usize.
UsizeAdd(a, b) ==
    [val |-> BigWrap(BigAdd(a, b), UsizeBits),
     overflow |-> BigWrap(BigAdd(a, b), UsizeBits) # BigAdd(a, b)]

\* size_of::<Vec4>(): WGSL pads a vec3 to 16 bytes.
WGSL_VEC3_STRIDE == 16
WGSL_FACE_STRIDE == WGSL_VEC3_STRIDE * VERTEXES_PER_FACE
WGSL_FACES_STRIDE == WGSL_FACE_STRIDE * FACES_PER_VOXEL

GENERATE_MESH_WORKGROUP_SIZE == 64
GENERATE_MESH_VOXELS_PER_INVOCATION == 5
GENERATE_MESH_VOXELS_PER_WORKGROUP ==
    GENERATE_MESH_VOXELS_PER_INVOCATION * GENERATE_MESH_WORKGROUP_SIZE
PASTE_CUBE_VOXELS_PER_WORKGROUP == 64
PASTE_SPHERE_VOXELS_PER_WORKGROUP == 64

MeshImplPanic ==
    [panic |-> "overflow", num_voxels |-> Big(0), normals_offset |-> Big(0),
     face_filled_offset |-> Big(0), buffer_size |-> Big(0)]

\* Faulty variant of GenerateMeshImpl::new: one bit of the mask for every
\* bit of a word.
MaskWords_32Bits(numFaces) == BigDiv(BigAdd(numFaces, Big(31)), 32)

\* GenerateMeshImpl::new, the words of the face-filled region:
\* (num_faces + FACE_FILLED_NUM_BITS - 1) / FACE_FILLED_NUM_BITS.
MaskWords(numFaces) ==
    BigDiv(BigAdd(numFaces, Big(FACE_FILLED_NUM_BITS - 1)), FACE_FILLED_NUM_BITS)

\* GenerateMeshImpl::new, the layout of storage_buffer for a grid of the given
\* size: the number of voxels, the offsets of the normals and of the
\* face-filled region, and the size of the buffer, all in usize.
GenerateMeshImpl_new(size, checks) ==
    LET xy == UsizeMul(Big(size[1]), Big(size[2]))
        num_voxels == UsizeMul(xy.val, Big(size[3]))
        normals_offset == UsizeMul(num_voxels.val, Big(WGSL_FACES_STRIDE))
        second == UsizeMul(num_voxels.val, Big(WGSL_FACES_STRIDE))
        face_filled_offset == UsizeAdd(normals_offset.val, second.val)
        num_faces == UsizeMul(num_voxels.val, Big(FACES_PER_VOXEL))
        rounded == UsizeAdd(num_faces.val, Big(FACE_FILLED_NUM_BITS - 1))
        mask == UsizeMul(MaskWords(num_faces.val), Big(4))
        buffer_size == UsizeAdd(face_filled_offset.val, mask.val)
    IN IF checks /\ (xy.overflow \/ num_voxels.overflow \/ normals_offset.overflow
                       \/ second.overflow \/ face_filled_offset.overflow
                       \/ num_faces.overflow \/ rounded.overflow \/ mask.overflow
                       \/ buffer_size.overflow)
       THEN MeshImplPanic
       ELSE [panic |-> "", num_voxels |-> num_voxels.val,
             normals_offset |-> normals_offset.val,
             face_filled_offset |-> face_filled_offset.val,
             buffer_size |-> buffer_size.val]

\* a - 1 for a > 0: the borrow runs through the digits that are 0.
LowestDigit(a) == CHOOSE d \in 1..NumDigits : a[d] # 0 /\ \A e \in 1..(d - 1) : a[e] = 0

BigPred(a) ==
    [d \in 1..NumDigits |->
        IF d < LowestDigit(a) THEN Digit - 1
        ELSE IF d = LowestDigit(a) THEN a[d] - 1
        ELSE a[d]]

\* a - 1 in u32: 0 - 1 overflows, and wraps to 2^32 - 1.
U32Pred(a) ==
    IF a = Big(0)
    THEN [val |-> BigWrap([d \in 1..NumDigits |-> Digit - 1], U32Bits), overflow |-> TRUE]
    ELSE [val |-> BigPred(a), overflow |-> FALSE]

\* A product of three factors in u32, from the left.
U32Mul3(a, b, c) ==
    LET ab == U32Op(BigMul(a, b))
        abc == U32Op(BigMul(ab.val, c))
    IN [val |-> abc.val, overflow |-> ab.overflow \/ abc.overflow]

\* Faulty variant of the work-group count: rounded down.
Workgroups_RoundedDown(items, perGroup) ==
    [workgroups |-> BigDiv(items.val, perGroup), overflow |-> items.overflow]

\* (items + perGroup - 1) / perGroup in u32, for the u32 value items and the
\* overflow of its own computation.
Workgroups(items, perGroup) ==
    LET plus == U32Op(BigAdd(items.val, Big(perGroup)))
        minus == U32Pred(plus.val)
    IN [workgroups |-> BigDiv(minus.val, perGroup),
        overflow |-> items.overflow \/ plus.overflow \/ minus.overflow]

\* GenerateMeshImpl::add_pass: `self.num_voxels as u32` keeps the low 32 bits.
GenerateMeshWorkgroups(numVoxels) ==
    Workgroups([val |-> BigWrap(numVoxels, U32Bits), overflow |-> FALSE],
               GENERATE_MESH_VOXELS_PER_WORKGROUP)

\* GeometryImpl::paste_cube: (size.x + 1) * (size.y + 1) * (size.z + 1) items.
PasteCubeWorkgroups(size) ==
    LET x1 == U32Op(BigAdd(Big(size[1]), Big(1)))
        y1 == U32Op(BigAdd(Big(size[2]), Big(1)))
        z1 == U32Op(BigAdd(Big(size[3]), Big(1)))
        n == U32Mul3(x1.val, y1.val, z1.val)
    IN Workgroups([val |-> n.val,
                   overflow |-> x1.overflow \/ y1.overflow \/ z1.overflow \/ n.overflow],
                  PASTE_CUBE_VOXELS_PER_WORKGROUP)

\* GeometryImpl::paste_sphere: (diameter + 1)^3 items.
PasteSphereWorkgroups(diameter) ==
    LET d1 == U32Op(BigAdd(Big(diameter), Big(1)))
        n == U32Mul3(d1.val, d1.val, d1.val)
    IN Workgroups([val |-> n.val, overflow |-> d1.overflow \/ n.overflow],
                  PASTE_SPHERE_VOXELS_PER_WORKGROUP)

\* A grid near the largest cube the size guard accepts, and the two sizes the
\* guard accepts without overflow checks because their padded length wraps.
MeshSizes ==
    SmallSizes \cup {<<810, 810, 810>>, <<2, 2^30 - 2, 2^30 - 2>>, <<2^30 - 2, 2^30 - 2, 14>>}

\* Cube sizes and sphere diameters: small ones, the last whose item count fits
\* 32 bits and the first whose count does not, and large ones.
PasteChoices == {0, 1, 3, 63, 1624, 1625, 2^16 - 1, I32Max}

KernelInputs ==
    {[fn |-> "GenerateMeshImpl", size |-> s, checks |-> b, done |-> FALSE] :
        s \in MeshSizes, b \in BOOLEAN}
    \cup {[fn |-> "paste_cube", size |-> <<x, y, z>>, checks |-> b, done |-> FALSE] :
        x \in PasteChoices, y \in PasteChoices, z \in PasteChoices, b \in BOOLEAN}
    \cup {[fn |-> "paste_sphere", diameter |-> d, checks |-> b, done |-> FALSE] :
        d \in PasteChoices \cup (0..MaxDim), b \in BOOLEAN}

\* The work-group count a call records, or its panic on an overflow in a build
\* that checks.
Dispatch(w, checks) ==
    [panic |-> IF checks /\ w.overflow THEN "overflow" ELSE "",
     overflow |-> w.overflow, workgroups |-> w.workgroups]

\* VoxelGrid::new with the size drawn (it asks get_buf_size), then
\* GenerateMeshImpl::new on that grid.
MeshImplNewCall ==
    /\ calc.fn = "GenerateMeshImpl" /\ ~calc.done
    /\ calc' = [calc EXCEPT !.done = TRUE]
                 @@ [out |-> [guard |-> check_grid_size(calc.size, calc.checks),
                              layout |-> GenerateMeshImpl_new(calc.size, calc.checks)]]
    /\ UNCHANGED <<listVars, compVars>>

\* GenerateMeshImpl::add_pass on the value new returned.
MeshImplAddPassCall ==
    /\ calc.fn = "GenerateMeshImpl" /\ calc.done
    /\ calc.out.guard.panic = "" /\ calc.out.layout.panic = ""
    /\ "dispatch" \notin DOMAIN calc.out
    /\ calc' = [calc EXCEPT !.out = @ @@ [dispatch |->
                    Dispatch(GenerateMeshWorkgroups(calc.out.layout.num_voxels), calc.checks)]]
    /\ UNCHANGED <<listVars, compVars>>

PasteCubeCall ==
    /\ calc.fn = "paste_cube" /\ ~calc.done
    /\ calc' = [calc EXCEPT !.done = TRUE]
                 @@ [out |-> Dispatch(PasteCubeWorkgroups(calc.size), calc.checks)]
    /\ UNCHANGED <<listVars, compVars>>

PasteSphereCall ==
    /\ calc.fn = "paste_sphere" /\ ~calc.done
    /\ calc' = [calc EXCEPT !.done = TRUE]
                 @@ [out |-> Dispatch(PasteSphereWorkgroups(calc.diameter), calc.checks)]
    /\ UNCHANGED <<listVars, compVars>>

InitKernel == ListIdle /\ CompIdle /\ calc \in KernelInputs

NextKernel == MeshImplNewCall \/ MeshImplAddPassCall \/ PasteCubeCall \/ PasteSphereCall

KernelSpec == InitKernel /\ [][NextKernel]_vars

\* The number of voxels of a size as a number, with no register width.
ExactVoxels(size) == BigMul(BigMul(Big(size[1]), Big(size[2])), Big(size[3]))

\* C32: for a grid of V voxels GenerateMeshImpl::new lays out the scratch
\* buffer as vertices at [0, 576 V), normals at [576 V, 1152 V) and the bitmask
\* at [1152 V, 1152 V + 4 ceil(6V / 30)), which is the whole buffer; the
\* bitmask has a bit position, 30 per word, for each of the 6V faces.
C32_BufferLayout ==
    (calc.fn = "GenerateMeshImpl" /\ calc.done
        /\ calc.out.guard.panic = "" /\ calc.out.layout.panic = "") =>
        LET V == ExactVoxels(calc.size)
            faces == BigMul(V, Big(FACES_PER_VOXEL))
            words == BigDiv(BigAdd(faces, Big(29)), 30)
            lay == calc.out.layout
        IN /\ lay.num_voxels = V
           /\ lay.normals_offset = BigMul(V, Big(576))
           /\ lay.face_filled_offset = BigMul(V, Big(1152))
           /\ lay.buffer_size = BigAdd(lay.face_filled_offset, BigMul(words, Big(4)))
           /\ BigGeq(lay.face_filled_offset, lay.normals_offset)
           /\ BigGeq(lay.buffer_size, lay.face_filled_offset)
           /\ BigGeq(BigMul(words, Big(FACE_FILLED_NUM_BITS)), faces)

\* w work groups of perGroup items are the items rounded up:
\* w * perGroup >= items > (w - 1) * perGroup.
RoundsUp(w, items, perGroup) ==
    /\ BigGeq(BigMul(w, Big(perGroup)), items)
    /\ BigAdd(items, Big(perGroup)) # BigMul(w, Big(perGroup))
    /\ BigGeq(BigAdd(items, Big(perGroup)), BigMul(w, Big(perGroup)))

\* The exact number of items (a + 1)(b + 1)(c + 1).
ExactItems(a, b, c) ==
    BigMul(BigMul(BigAdd(Big(a), Big(1)), BigAdd(Big(b), Big(1))), BigAdd(Big(c), Big(1)))

\* C33: the work-group count recorded is the item count rounded up to the
\* throughput of a work group (V items and 320 for generate_mesh,
\* (sx+1)(sy+1)(sz+1) and 64 for paste_cube, (d+1)^3 and 64 for paste_sphere),
\* and its computation in 32 bits does not overflow.
C33_WorkgroupsRoundUp ==
    /\ (calc.fn = "GenerateMeshImpl" /\ calc.done /\ "dispatch" \in DOMAIN calc.out) =>
          /\ ~calc.out.dispatch.overflow
          /\ RoundsUp(calc.out.dispatch.workgroups, ExactVoxels(calc.size), 320)
    /\ (calc.fn = "paste_cube" /\ calc.done) =>
          /\ ~calc.out.overflow
          /\ RoundsUp(calc.out.workgroups,
                      ExactItems(calc.size[1], calc.size[2], calc.size[3]), 64)
    /\ (calc.fn = "paste_sphere" /\ calc.done) =>
          /\ ~calc.out.overflow
          /\ RoundsUp(calc.out.workgroups,
                      ExactItems(calc.diameter, calc.diameter, calc.diameter), 64)

\* --------------------- copy_data_to_voxel_grid and its finalizer (bevy_voxel.rs)

\* The CPU contents a VoxelGridData can hold are numbered 1..MaxContents.
MaxContents == 2

Contents == 1..MaxContents

None == [some |-> FALSE, of |-> 0]

Some(c) == [some |-> TRUE, of |-> c]

\* VoxelGridBuffer::from_content(data, device): a buffer filled from the data.
FromContent(data) == Some(data.of)

\* A buffer made by someone else, e.g. VoxelGrid::from(buffer).
OtherBuffer == Some(0)

\* One entity with VoxelGridData and VoxelGrid: the two Options behind their
\* mutexes, the owner of each mutex, the CopyDataToVoxelGrid marker, and the
\* positions of the two systems.  `filters` is whether the query term
\* Has<CopyDataToVoxelGrid> keeps unmarked entities out, which the query
\* engine decides.
Entities ==
    {[pc |-> "idle", fpc |-> "idle", data |-> d, buffer |-> b, marker |-> m,
      data_lock |-> "free", vg_buffer_lock |-> "free", filters |-> f] :
        d \in {None} \cup {Some(c) : c \in Contents},
        b \in {None, OtherBuffer},
        m \in BOOLEAN, f \in BOOLEAN}

QueryMatches(e) == ~e.filters \/ e.marker

\* copy_data_to_voxel_grid: voxel_grid_data.lock().
CopyLockData ==
    /\ vgrid.pc = "idle"
    /\ QueryMatches(vgrid)
    /\ vgrid.data_lock = "free"
    /\ vgrid' = [vgrid EXCEPT !.pc = "data_locked", !.data_lock = "copy"]

\* Faulty variant of copy_data_to_voxel_grid: the buffer is replaced whenever
\* there is data.
CopyCreates_Always(e) == e.data.some

\* copy_data_to_voxel_grid, the two tests before the buffer is created.
CopyCreates(e) == ~e.buffer.some /\ e.data.some

\* copy_data_to_voxel_grid: voxel_grid_storage_buffer.lock().
CopyLockBuffer ==
    /\ vgrid.pc = "data_locked"
    /\ vgrid.vg_buffer_lock = "free"
    /\ vgrid' = [vgrid EXCEPT !.pc = "both_locked", !.vg_buffer_lock = "copy"]

\* copy_data_to_voxel_grid, the rest of the loop body: `continue` if the buffer
\* is there or the data is not, else create the buffer from the data; both
\* guards are dropped.
CopyData ==
    /\ vgrid.pc = "both_locked"
    /\ vgrid' = [vgrid EXCEPT !.pc = "idle",
                              !.data_lock = "free",
                              !.vg_buffer_lock = "free",
                              !.buffer = IF CopyCreates(vgrid) THEN FromContent(vgrid.data) ELSE @]

\* finalize_copy_data_to_voxel_grid: voxel_grid_storage_buffer.lock().
FinalizeLockBuffer ==
    /\ vgrid.fpc = "idle"
    /\ QueryMatches(vgrid)
    /\ vgrid.vg_buffer_lock = "free"
    /\ vgrid' = [vgrid EXCEPT !.fpc = "locked", !.vg_buffer_lock = "finalize"]

\* finalize_copy_data_to_voxel_grid, the rest of the loop body: the marker is
\* removed if the buffer is there; the guard is dropped.
FinalizeCopy ==
    /\ vgrid.fpc = "locked"
    /\ vgrid' = [vgrid EXCEPT !.fpc = "idle",
                              !.vg_buffer_lock = "free",
                              !.marker = IF vgrid.buffer.some THEN FALSE ELSE @]

\* The application replaces the CPU content through the shared mutex.
AppSetsData ==
    /\ vgrid.pc # "none"
    /\ vgrid.data_lock = "free"
    /\ \E d \in {None} \cup {Some(c) : c \in Contents} :
          /\ d # vgrid.data
          /\ vgrid' = [vgrid EXCEPT !.data = d]

\* What the systems of the copy component leave alone.
copyFrame == <<listVars, calc, genMesh, getVoxels>>

InitCopy == ListIdle /\ calc = NoCalc /\ genMesh = NoGenMesh /\ getVoxels = NoGetVoxels
            /\ vgrid \in Entities

NextCopy ==
    \/ CopyLockData /\ UNCHANGED copyFrame
    \/ CopyLockBuffer /\ UNCHANGED copyFrame
    \/ CopyData /\ UNCHANGED copyFrame
    \/ FinalizeLockBuffer /\ UNCHANGED copyFrame
    \/ FinalizeCopy /\ UNCHANGED copyFrame
    \/ AppSetsData /\ UNCHANGED copyFrame

CopySpec == InitCopy /\ [][NextCopy]_vars

CopyStep == vgrid.pc = "both_locked" /\ vgrid'.pc = "idle"

FinalizeStep == vgrid.fpc = "locked" /\ vgrid'.fpc = "idle"

\* C34: copy_data_to_voxel_grid changes the buffer only from absent to one made
\* from the present CPU content, never replaces an existing buffer and never
\* changes the CPU content; whenever it holds the grid-buffer lock it already
\* holds the grid-data lock; finalize_copy_data_to_voxel_grid removes the marker
\* only when the buffer exists.
C34_CopyCreatesOnlyMissingBuffer ==
    /\ [](vgrid.vg_buffer_lock = "copy" => vgrid.data_lock = "copy")
    /\ [][/\ CopyStep =>
               /\ vgrid'.data = vgrid.data
               /\ (vgrid.buffer.some => vgrid'.buffer = vgrid.buffer)
               /\ (vgrid'.buffer # vgrid.buffer =>
                     /\ ~vgrid.buffer.some
                     /\ vgrid.data.some
                     /\ vgrid'.buffer = FromContent(vgrid.data))
           /\ (vgrid'.buffer # vgrid.buffer => CopyStep)
           /\ (vgrid.marker /\ ~vgrid'.marker => FinalizeStep /\ vgrid.buffer.some)
           /\ (FinalizeStep /\ ~vgrid.buffer.some => vgrid'.marker = vgrid.marker)]_vars

\* The buffer was created from content, the marker has been removed since, and
\* both systems are between runs.
C34_Witness ==
    /\ vgrid.pc = "idle" /\ vgrid.fpc = "idle"
    /\ vgrid.buffer.some /\ vgrid.buffer # OtherBuffer
    /\ ~vgrid.marker /\ vgrid.filters

\* ------------------------- several handles to one list in one prepare phase

\* prepare_command_list, the next iteration of `for command_list in
\* query.iter()` when the query yields another entity whose CommandList is a
\* clone of the same handle: command_list.0.lock(), first half.
PrepareNextHandle ==
    /\ rpc = "node"
    /\ LockFirst(RenderThread)
    /\ rpc' = "prepare"
    /\ UNCHANGED <<state, commands, grid, pending, panicWhy, k, runVars, cpc, lastCall>>

NextClones ==
    \/ Next
    \/ PrepareNextHandle /\ UNCHANGED <<calc, compVars>>

ClonesSpec == Init /\ [][NextClones]_vars

\* C35: a list is on CommandPipeline.command_lists only while it is Busy and at
\* most once, however many handles to it prepare_command_list iterates; the
\* entry is added only by the step that makes the list Busy; map_commands
\* leaves command_lists empty, and the step that makes the list Mapping starts
\* from Busy with command_lists already emptied.
C35_PendingListsAreBusyOnce ==
    /\ [](pending > 0 => state = "Busy" /\ pending = 1)
    /\ [][/\ (pending' > pending => state = "Init" /\ state' = "Busy" /\ pending' = pending + 1)
          /\ (rpc = "map" /\ rpc' # "map" => pending' = 0)
          /\ (rpc \in {"map_begin", "map_finish"} => pending = 0 /\ pending' = 0)
          /\ (state # "Mapping" /\ state' = "Mapping" => state = "Busy" /\ pending = 0)]_vars

\* A second handle to a list that is already pending is being looked at.
C35_Witness ==
    /\ rpc = "prepare"
    /\ pending = 1
    /\ state = "Busy"
    /\ commandsLock = RenderThread

\* ------------------------------ the standalone GenerateMesh component (generate_mesh.rs)

GenerateMeshState == {"Init", "Busy", "Mapping", "Mapped", "Done"}

\* One entity with a GenerateMesh component and a grid buffer:
\*   state    the GenerateMeshState behind the std mutex
\*   lock     owner of that mutex: "free", "render", "main", "device", or
\*            "poisoned" after a panic of its holder
\*   grid     whether the grid buffer of the entity is Some
\*   rpc      position of the render thread (prepare, node, map)
\*   fpc      position of the main thread in finalize_generate_mesh
\*   states   entries of this component in GenerationPipeline.states
\*   req      the map request: "none", "inflight", "writing", "done", "failed"
\*   on       the thread the completion callback runs on
\*   meshes   meshes inserted by finalize_generate_mesh
GenMeshEntities ==
    {[state |-> "Init", lock |-> "free", grid |-> g, rpc |-> "idle", fpc |-> "idle",
      states |-> 0, req |-> "none", on |-> "none", meshes |-> 0] : g \in BOOLEAN}

\* Mutex::lock().unwrap() by thread t: blocks while the mutex is held, panics
\* on a poisoned mutex.
GMCanLock == genMesh.lock \in {"free", "poisoned"}

GMLock(t) == IF genMesh.lock = "poisoned" THEN "poisoned" ELSE t

GMPoisoned == genMesh.lock = "poisoned"

\* The application gives the entity its grid buffer.
GridBufferArrives ==
    /\ genMesh.rpc # "none"
    /\ genMesh.rpc \notin {"prepare_grid", "prepare"}
    /\ ~genMesh.grid
    /\ genMesh' = [genMesh EXCEPT !.grid = TRUE]

\* prepare_generate_mesh: voxel_grid_storage_buffer.buffer.lock().unwrap().
PrepareLockGrid ==
    /\ genMesh.rpc = "idle"
    /\ genMesh' = [genMesh EXCEPT !.rpc = "prepare_grid"]

\* prepare_generate_mesh: generate_mesh.0.lock().unwrap().
PrepareLockState ==
    /\ genMesh.rpc = "prepare_grid"
    /\ GMCanLock
    /\ genMesh' = [genMesh EXCEPT !.rpc = IF GMPoisoned THEN "panicked" ELSE "prepare",
                                  !.lock = GMLock("render")]

\* prepare_generate_mesh, the rest of the loop body: an entity without grid
\* buffer or not in Init is skipped; otherwise the state becomes Busy and the
\* shared state is pushed on GenerationPipeline.states.
prepare_generate_mesh ==
    /\ genMesh.rpc = "prepare"
    /\ IF genMesh.grid /\ genMesh.state = "Init"
       THEN genMesh' = [genMesh EXCEPT !.rpc = "node", !.lock = "free",
                                       !.state = "Busy", !.states = @ + 1]
       ELSE genMesh' = [genMesh EXCEPT !.rpc = "node", !.lock = "free"]

\* GenerationNode::run: shared_state.lock().unwrap() for every pushed state.
NodeLockState ==
    /\ genMesh.rpc = "node"
    /\ IF genMesh.states = 0
       THEN genMesh' = [genMesh EXCEPT !.rpc = "map"]
       ELSE /\ GMCanLock
            /\ genMesh' = [genMesh EXCEPT !.rpc = IF GMPoisoned THEN "panicked" ELSE "node_run",
                                          !.lock = GMLock("render")]

\* GenerationNode::run, the rest of the loop body: the pass and the copy are
\* recorded for a Busy state; the state is only read.
GenerationNode_run ==
    /\ genMesh.rpc = "node_run"
    /\ genMesh' = [genMesh EXCEPT !.rpc = "map", !.lock = "free"]

\* map_generate_mesh: take(&mut pipeline.states), shared_state.lock().unwrap().
MapLockState ==
    /\ genMesh.rpc = "map"
    /\ IF genMesh.states = 0
       THEN genMesh' = [genMesh EXCEPT !.rpc = "idle"]
       ELSE /\ GMCanLock
            /\ genMesh' = [genMesh EXCEPT !.rpc = IF GMPoisoned THEN "panicked" ELSE "map_locked",
                                          !.lock = GMLock("render"),
                                          !.states = 0]

\* map_generate_mesh: replace(&mut *guard, Mapping); a state that was not Busy
\* is put back; for a Busy state the guard is dropped.
map_generate_mesh ==
    /\ genMesh.rpc = "map_locked"
    /\ IF genMesh.state = "Busy"
       THEN genMesh' = [genMesh EXCEPT !.rpc = "map_async", !.lock = "free", !.state = "Mapping"]
       ELSE genMesh' = [genMesh EXCEPT !.rpc = "idle", !.lock = "free"]

\* map_generate_mesh: map_async(MapMode::Read, callback).  The device runs the
\* callback later on a thread of its choice, or on the calling thread before
\* map_async returns.
MapAsyncRequest ==
    /\ genMesh.rpc = "map_async"
    /\ genMesh.req = "none"
    /\ \E sync \in BOOLEAN :
          genMesh' = [genMesh EXCEPT !.req = "inflight",
                                     !.on = IF sync THEN "render" ELSE "device",
                                     !.rpc = IF sync THEN "in_callback" ELSE "idle"]

\* The render thread is back from a callback that ran inside map_async.
GMCallbackReturns(g) == IF g.on = "render" THEN "idle" ELSE g.rpc

\* Faulty variant of the map callback: the result is not looked at.
CallbackWrites_Always(res) == TRUE

\* The map callback, `if res.is_ok()`.
CallbackWrites(res) == res = "ok"

\* The map callback, up to shared_state.lock().unwrap(): a failed map only
\* prints.
MapCallbackBegin ==
    /\ genMesh.req = "inflight"
    /\ \E res \in {"ok", "err"} :
          IF CallbackWrites(res)
          THEN /\ GMCanLock
               /\ genMesh' = [genMesh EXCEPT
                      !.req = IF GMPoisoned THEN "failed" ELSE IF res = "ok" THEN "writing" ELSE "writing_err",
                      !.lock = GMLock(genMesh.on),
                      !.rpc = IF GMPoisoned THEN GMCallbackReturns(genMesh) ELSE @]
          ELSE genMesh' = [genMesh EXCEPT !.req = "failed", !.rpc = GMCallbackReturns(genMesh)]

\* The map callback: the state becomes Mapped and the guard is dropped.
MapCallbackWrite ==
    /\ genMesh.req \in {"writing", "writing_err"}
    /\ genMesh' = [genMesh EXCEPT !.state = "Mapped", !.lock = "free",
                                  !.req = IF @ = "writing" THEN "done" ELSE "failed",
                                  !.rpc = GMCallbackReturns(genMesh)]

\* finalize_generate_mesh: generate_mesh.0.lock().unwrap().
FinalizeLockState ==
    /\ genMesh.fpc = "idle"
    /\ GMCanLock
    /\ genMesh' = [genMesh EXCEPT !.fpc = IF GMPoisoned THEN "panicked" ELSE "locked",
                                  !.lock = GMLock("main")]

\* finalize_generate_mesh, the rest of the loop body: a state other than Mapped
\* is skipped; for Mapped the mesh is built and inserted and the state becomes
\* Done.  `stray` is whether the device left a bit set in a mask word above bit
\* 29: count_ones then counts a face the loop does not copy and
\* assert!(filled == num_faces) panics with the guard held.
finalize_generate_mesh ==
    /\ genMesh.fpc = "locked"
    /\ IF genMesh.state # "Mapped"
       THEN genMesh' = [genMesh EXCEPT !.fpc = "idle", !.lock = "free"]
       ELSE \E stray \in BOOLEAN :
              IF stray
              THEN genMesh' = [genMesh EXCEPT !.fpc = "panicked", !.lock = "poisoned"]
              ELSE genMesh' = [genMesh EXCEPT !.fpc = "idle", !.lock = "free",
                                              !.state = "Done", !.meshes = @ + 1]

\* What the systems of the GenerateMesh component leave alone.
genMeshFrame == <<listVars, calc, vgrid, getVoxels>>

InitGenMesh == ListIdle /\ calc = NoCalc /\ vgrid = NoEntity /\ getVoxels = NoGetVoxels
               /\ genMesh \in GenMeshEntities

NextGenMesh ==
    \/ GridBufferArrives /\ UNCHANGED genMeshFrame
    \/ PrepareLockGrid /\ UNCHANGED genMeshFrame
    \/ PrepareLockState /\ UNCHANGED genMeshFrame
    \/ prepare_generate_mesh /\ UNCHANGED genMeshFrame
    \/ NodeLockState /\ UNCHANGED genMeshFrame
    \/ GenerationNode_run /\ UNCHANGED genMeshFrame
    \/ MapLockState /\ UNCHANGED genMeshFrame
    \/ map_generate_mesh /\ UNCHANGED genMeshFrame
    \/ MapAsyncRequest /\ UNCHANGED genMeshFrame
    \/ MapCallbackBegin /\ UNCHANGED genMeshFrame
    \/ MapCallbackWrite /\ UNCHANGED genMeshFrame
    \/ FinalizeLockState /\ UNCHANGED genMeshFrame
    \/ finalize_generate_mesh /\ UNCHANGED genMeshFrame

GenMeshSpec == InitGenMesh /\ [][NextGenMesh]_vars

\* The order of the states of a GenerateMesh component.
GMRank(s) ==
    CASE s = "Init" -> 0
      [] s = "Busy" -> 1
      [] s = "Mapping" -> 2
      [] s = "Mapped" -> 3
      [] s = "Done" -> 4

\* C36: the state of a standalone GenerateMesh component changes only to the
\* next state of Init, Busy, Mapping, Mapped, Done; the map request is issued
\* with the state already Mapping and the state mutex not held by the issuing
\* thread; Mapped is written only by the callback of a successful map, Done
\* only by finalize_generate_mesh; once a map has failed the state is Mapping
\* and no mesh exists, from then on.
C36_GenerateMeshStateOrder ==
    /\ [](genMesh.req = "failed" => genMesh.state = "Mapping" /\ genMesh.meshes = 0)
    /\ [](genMesh.meshes > 0 => genMesh.state = "Done" /\ genMesh.req = "done")
    /\ [][/\ (genMesh'.state # genMesh.state =>
                 GMRank(genMesh'.state) = GMRank(genMesh.state) + 1)
          /\ (genMesh.req = "none" /\ genMesh'.req # "none" =>
                 /\ genMesh.state = "Mapping"
                 /\ genMesh.lock # "render"
                 /\ genMesh'.req = "inflight")
          /\ (genMesh.state # "Mapped" /\ genMesh'.state = "Mapped" =>
                 genMesh.req = "writing" /\ genMesh'.req = "done")
          /\ (genMesh.state # "Done" /\ genMesh'.state = "Done" =>
                 genMesh.fpc = "locked" /\ genMesh'.meshes = genMesh.meshes + 1)
          /\ (genMesh.req = "failed" => genMesh'.req = "failed")]_vars

\* A map failed a while ago: the render thread is in prepare_generate_mesh
\* again, and the state is still Mapping.
C36_Witness ==
    /\ genMesh.req = "failed"
    /\ genMesh.state = "Mapping"
    /\ genMesh.rpc = "prepare"
    /\ genMesh.fpc = "idle"

\* ------------------------- GetVoxelsCommand and its copy-buffer mutex (command.rs)

\* Runs of one GetVoxelsCommand (prepare, add_copy, async_finish).
MaxRuns == 2

Runs == 1..MaxRuns

NoRequest == [status |-> "none", on |-> "none", res |-> "none"]

\* One GetVoxelsCommand:
\*   pc           position of the thread that calls the command
\*   grid         whether the SharedVoxelGrid of the command is Some
\*   copy_buffer  0 for None, r for the buffer created by prepare of run r
\*   lock         owner of the copy_buffer mutex: "free", "render", "device"
\*   run          calls of async_finish that have returned
\*   req          the map request of every run: its status ("none", "inflight",
\*                "reading", "done", "failed", "panicked"), the thread its
\*                callback runs on and the result the device reports
\*   delivered    calls of the user callback
GetVoxelsCommands ==
    {[pc |-> "idle", grid |-> g, copy_buffer |-> 0, lock |-> "free", run |-> 0,
      req |-> [r \in Runs |-> NoRequest], delivered |-> 0] : g \in BOOLEAN}

\* GetVoxelsCommand::prepare: without grid it returns; else copy_buffer.lock().
GetVoxelsPrepareLock ==
    /\ getVoxels.pc = "idle"
    /\ getVoxels.run < MaxRuns
    /\ IF ~getVoxels.grid
       THEN getVoxels' = [getVoxels EXCEPT !.pc = "prepared"]
       ELSE /\ getVoxels.lock = "free"
            /\ getVoxels' = [getVoxels EXCEPT !.pc = "prepare", !.lock = "render"]

\* GetVoxelsCommand::prepare: *copy_buffer = Some(create_buffer(..)).
GetVoxelsPrepare ==
    /\ getVoxels.pc = "prepare"
    /\ getVoxels' = [getVoxels EXCEPT !.pc = "prepared", !.lock = "free",
                                      !.copy_buffer = getVoxels.run + 1]

\* GetVoxelsCommand::add_copy: grid.lock(), copy_buffer.lock().
GetVoxelsAddCopyLock ==
    /\ getVoxels.pc = "prepared"
    /\ getVoxels.lock = "free"
    /\ getVoxels' = [getVoxels EXCEPT !.pc = "add_copy", !.lock = "render"]

\* GetVoxelsCommand::add_copy: src.as_ref().unwrap() panics without grid; the
\* copy is recorded and the guards are dropped.
GetVoxelsAddCopy ==
    /\ getVoxels.pc = "add_copy"
    /\ getVoxels' = [getVoxels EXCEPT !.pc = IF getVoxels.grid THEN "copied" ELSE "panicked",
                                      !.lock = "free"]

\* GetVoxelsCommand::async_finish: self.copy_buffer.lock(), a temporary that
\* lives to the end of the statement.
AsyncFinishLock ==
    /\ getVoxels.pc = "copied"
    /\ getVoxels.lock = "free"
    /\ getVoxels' = [getVoxels EXCEPT !.pc = "finish_locked", !.lock = "render"]

\* Faulty variant of async_finish: the guard is dropped before map_async.
GuardDuringMapAsync_Dropped == "free"

\* GetVoxelsCommand::async_finish: the owner of the copy_buffer mutex while
\* map_async runs.
GuardDuringMapAsync == "render"

\* GetVoxelsCommand::async_finish: .map_async(MapMode::Read, callback).  The
\* device reports Ok or Err, and runs the callback later on a thread of its
\* own or on the calling thread before map_async returns.
AsyncFinishMapAsync ==
    /\ getVoxels.pc = "finish_locked"
    /\ \E sync \in BOOLEAN, res \in {"ok", "err"} :
          getVoxels' = [getVoxels EXCEPT
              !.req[getVoxels.run + 1] = [status |-> "inflight",
                                          on |-> IF sync THEN "render" ELSE "device",
                                          res |-> res],
              !.lock = GuardDuringMapAsync,
              !.pc = IF sync THEN "in_map_async" ELSE "map_returned"]

\* GetVoxelsCommand::async_finish: the statement ends, the guard is dropped.
AsyncFinishReturn ==
    /\ getVoxels.pc = "map_returned"
    /\ getVoxels' = [getVoxels EXCEPT !.pc = "idle", !.lock = "free", !.run = @ + 1]

\* The thread that called map_async goes on when a callback that ran inside
\* map_async returns.
AfterCallback(r) ==
    IF getVoxels.req[r].on = "render" THEN "map_returned" ELSE getVoxels.pc

\* The map callback for a failed map: done(result) only.
MapCallbackErr(r) ==
    /\ getVoxels.req[r].status = "inflight"
    /\ getVoxels.req[r].res = "err"
    /\ getVoxels' = [getVoxels EXCEPT !.req[r].status = "failed", !.pc = AfterCallback(r)]

\* The map callback for a successful map: copy_buffer.lock(), which waits
\* until the mutex is free whoever holds it.
MapCallbackLock(r) ==
    /\ getVoxels.req[r].status = "inflight"
    /\ getVoxels.req[r].res = "ok"
    /\ getVoxels.lock = "free"
    /\ getVoxels' = [getVoxels EXCEPT !.req[r].status = "reading",
                                      !.lock = getVoxels.req[r].on]

\* The map callback under the guard: get_mapped_range of the buffer now in
\* copy_buffer, which panics unless that is the buffer this request mapped;
\* the words are handed to the user callback, the guard is dropped and
\* done(result) is called.
MapCallbackRead(r) ==
    /\ getVoxels.req[r].status = "reading"
    /\ IF getVoxels.copy_buffer = r
       THEN getVoxels' = [getVoxels EXCEPT !.req[r].status = "done",
                                           !.lock = IF getVoxels.req[r].on = "render"
                                                    THEN GuardDuringMapAsync ELSE "free",
                                           !.delivered = @ + 1,
                                           !.pc = AfterCallback(r)]
       ELSE getVoxels' = [getVoxels EXCEPT !.req[r].status = "panicked", !.lock = "free"]

getVoxelsFrame == <<listVars, calc, vgrid, genMesh>>

InitGetVoxels == ListIdle /\ calc = NoCalc /\ vgrid = NoEntity /\ genMesh = NoGenMesh
                 /\ getVoxels \in GetVoxelsCommands

NextGetVoxels ==
    \/ GetVoxelsPrepareLock /\ UNCHANGED getVoxelsFrame
    \/ GetVoxelsPrepare /\ UNCHANGED getVoxelsFrame
    \/ GetVoxelsAddCopyLock /\ UNCHANGED getVoxelsFrame
    \/ GetVoxelsAddCopy /\ UNCHANGED getVoxelsFrame
    \/ AsyncFinishLock /\ UNCHANGED getVoxelsFrame
    \/ AsyncFinishMapAsync /\ UNCHANGED getVoxelsFrame
    \/ AsyncFinishReturn /\ UNCHANGED getVoxelsFrame
    \/ \E r \in Runs : MapCallbackErr(r) /\ UNCHANGED getVoxelsFrame
    \/ \E r \in Runs : MapCallbackLock(r) /\ UNCHANGED getVoxelsFrame
    \/ \E r \in Runs : MapCallbackRead(r) /\ UNCHANGED getVoxelsFrame

GetVoxelsSpec == InitGetVoxels /\ [][NextGetVoxels]_vars

\* A callback that needs the copy_buffer mutex has been fired on the thread
\* that is inside map_async.
CallbackInsideMapAsync(r) ==
    /\ getVoxels.pc = "in_map_async"
    /\ getVoxels.req[r].on = "render"
    /\ getVoxels.req[r].status = "inflight"
    /\ getVoxels.req[r].res = "ok"

\* C37: GetVoxelsCommand::async_finish does not hold the copy_buffer mutex
\* when the map callback, which locks it, runs on the calling thread inside
\* map_async: the callback is never left waiting for its own thread.
C37_NoSelfDeadlock ==
    \A r \in Runs : CallbackInsideMapAsync(r) => getVoxels.lock # "render"

\* C38: every index get_mesh uses is in bounds, whatever the number of voxels
\* (zero included) and whatever the words of the face_filled region hold:
\* the word index is below the number of words, the source index below
\* 36 * num_voxels and the output index below 6 * num_faces.
C38_MeshIndexesInBounds ==
    (calc.fn = "get_mesh" /\ calc.done) =>
        \A u \in calc.used : 0 <= u.index /\ u.index < u.len

\* get_mesh has read the last word of the region and copied a face although a
\* reserved bit made its assertion fail.
C38_Witness ==
    /\ calc.fn = "get_mesh" /\ calc.done
    /\ calc.out.panic
    /\ \E u \in calc.used : u.slice = "face_filled" /\ u.index = u.len - 1 /\ u.index > 0
    /\ \E u \in calc.used : u.slice = "normals" /\ u.index > 0

====
